---- MODULE Spec2Model ----
(***************************************************************************)
(* alox-bytecode: a single-pass compiler (parser.rs) that emits bytecode   *)
(* into a Chunk (chunk.rs) and the stack VM (vm.rs) that executes it,      *)
(* sharing one string Interner (interner.rs).                              *)
(*                                                                         *)
(* The model is written as a functional core (one operator per Rust        *)
(* function or match arm, taking and returning the record of the object it *)
(* mutates) driven by a small number of actions: one VM loop iteration per *)
(* step, one top-level declaration per step of Parser::compile.            *)
(* The release build is modelled: the #[cfg(debug_assertions)] tracing     *)
(* calls of Vm::run are not part of it.                                    *)
(***************************************************************************)
EXTENDS Integers, Sequences, FiniteSets, TLC

(***************************************************************************)
(* Bounds of the model.                                                    *)
(***************************************************************************)
\* longest hand-assembled program, in instructions, over the whole
\* instruction set (SpecVm)
MaxInstrs == 3
\* longest hand-assembled program over the global-variable statements, in
\* statements
MaxGlobalUnits == 3
\* longest source program, in statements (SpecScript)
MaxStmts == 2
\* longest source that is an arbitrary token sequence, in tokens
MaxSoup == 3
\* most number literals in one source
MaxLiterals == 257
\* most calls a client of the Chunk API makes, of any kind (SpecChunk)
MaxCalls == 3
\* most constants a client adds with write_constant alone
MaxConstants == 300

(***************************************************************************)
(* f64.  A number is sign s (1 or -1), numerator n and denominator d:      *)
(* d > 0 is the finite value s*n/d in lowest terms (n = 0 is the signed    *)
(* zero), d = 0 with n = 1 is the signed infinity and d = 0 with n = 0 is  *)
(* NaN.  Arithmetic is exact: the literals of the model are small          *)
(* integers and the programs are short, so every finite result is a small  *)
(* rational whose IEEE-754 comparison outcome is that of the exact value.  *)
(***************************************************************************)
RECURSIVE Gcd(_, _)
Gcd(a, b) == IF b = 0 THEN a ELSE Gcd(b, a % b)

Abs(i) == IF i < 0 THEN -i ELSE i

NaN == [s |-> 1, n |-> 0, d |-> 0]
Inf(sign) == [s |-> sign, n |-> 1, d |-> 0]
Zero(sign) == [s |-> sign, n |-> 0, d |-> 1]
IsNaN(x) == x.d = 0 /\ x.n = 0
IsInf(x) == x.d = 0 /\ x.n = 1
IsZero(x) == x.d > 0 /\ x.n = 0

\* the finite nonzero-or-positive-zero value num/den (den > 0), normalised
Ratio(num, den) ==
    LET g == Gcd(Abs(num), den)
    IN  IF num = 0 THEN Zero(1)
        ELSE [s |-> IF num < 0 THEN -1 ELSE 1, n |-> Abs(num) \div g, d |-> den \div g]

FromInt(i) == Ratio(i, 1)

\* unary minus flips the sign bit (of zeros and infinities too)
FNeg(x) == IF IsNaN(x) THEN NaN ELSE [x EXCEPT !.s = -x.s]

FAdd(x, y) ==
    IF IsNaN(x) \/ IsNaN(y) THEN NaN
    ELSE IF IsInf(x) /\ IsInf(y) THEN (IF x.s = y.s THEN x ELSE NaN)
    ELSE IF IsInf(x) THEN x
    ELSE IF IsInf(y) THEN y
    ELSE LET num == x.s * x.n * y.d + y.s * y.n * x.d
         IN  IF num = 0
             THEN (IF x.s = -1 /\ y.s = -1 THEN Zero(-1) ELSE Zero(1))
             ELSE Ratio(num, x.d * y.d)

FSub(x, y) == FAdd(x, FNeg(y))

FMul(x, y) ==
    IF IsNaN(x) \/ IsNaN(y) THEN NaN
    ELSE IF (IsInf(x) /\ IsZero(y)) \/ (IsZero(x) /\ IsInf(y)) THEN NaN
    ELSE IF IsInf(x) \/ IsInf(y) THEN Inf(x.s * y.s)
    ELSE IF x.n = 0 \/ y.n = 0 THEN Zero(x.s * y.s)
    ELSE [s |-> x.s * y.s,
          n |-> (x.n * y.n) \div Gcd(x.n * y.n, x.d * y.d),
          d |-> (x.d * y.d) \div Gcd(x.n * y.n, x.d * y.d)]

FDiv(x, y) ==
    IF IsNaN(x) \/ IsNaN(y) THEN NaN
    ELSE IF (IsInf(x) /\ IsInf(y)) \/ (IsZero(x) /\ IsZero(y)) THEN NaN
    ELSE IF IsInf(x) \/ IsZero(y) THEN Inf(x.s * y.s)
    ELSE IF IsInf(y) \/ IsZero(x) THEN Zero(x.s * y.s)
    ELSE [s |-> x.s * y.s,
          n |-> (x.n * y.d) \div Gcd(x.n * y.d, x.d * y.n),
          d |-> (x.d * y.n) \div Gcd(x.n * y.d, x.d * y.n)]

\* x < y of f64: false when either is NaN, -0 and +0 are equal
FLess(x, y) ==
    IF IsNaN(x) \/ IsNaN(y) THEN FALSE
    ELSE IF IsInf(x) THEN x.s = -1 /\ ~(IsInf(y) /\ y.s = -1)
    ELSE IF IsInf(y) THEN y.s = 1
    ELSE x.s * x.n * y.d < y.s * y.n * x.d

FGreater(x, y) == FLess(y, x)

\* x == y of f64: NaN equals nothing, -0 == +0
FEq(x, y) ==
    IF IsNaN(x) \/ IsNaN(y) THEN FALSE
    ELSE IF IsZero(x) /\ IsZero(y) THEN TRUE
    ELSE x = y

(***************************************************************************)
(* value.rs, object.rs                                                     *)
(***************************************************************************)
Nil == [tag |-> "Nil"]
Bool(b) == [tag |-> "Bool", b |-> b]
Number(f) == [tag |-> "Number", f |-> f]
\* Value::Obj(Object::String(AloxString(idx)))
from_str_index(idx) == [tag |-> "Obj", id |-> idx]

IsNumber(v) == v.tag = "Number"
IsString(v) == v.tag = "Obj"

\* Value::as_string: Some(AloxString) for a string object, None otherwise
as_string(v) == IF v.tag = "Obj" THEN [some |-> TRUE, id |-> v.id] ELSE [some |-> FALSE]

\* equality that takes every two objects for equal
ValueEq_any_object(a, b) ==
    /\ a.tag = b.tag
    /\ CASE a.tag = "Nil" -> TRUE
         [] a.tag = "Bool" -> a.b = b.b
         [] a.tag = "Number" -> FEq(a.f, b.f)
         [] a.tag = "Obj" -> TRUE

\* #[derive(PartialEq)] on Value, Object and AloxString
ValueEq(a, b) ==
    /\ a.tag = b.tag
    /\ CASE a.tag = "Nil" -> TRUE
         [] a.tag = "Bool" -> a.b = b.b
         [] a.tag = "Number" -> FEq(a.f, b.f)
         [] a.tag = "Obj" -> a.id = b.id

(***************************************************************************)
(* interner.rs.  map: text -> id, vec: id -> text (ids are 0-based, vec    *)
(* is 1-based here).                                                       *)
(***************************************************************************)
InternerNew == [map |-> <<>>, vec |-> <<>>]

exists(I, string) == string \in DOMAIN I.map

\* Interner::lookup: vec[idx], a panic when idx is out of range
lookup_ok(I, idx) == idx >= 0 /\ idx < Len(I.vec)
lookup(I, idx) == I.vec[idx + 1]

\* Interner::get_existing: precondition exists(I, name)
get_existing(I, name) == I.map[name]

\* intern that stores a new text in front of the others
intern_prepends(I, name) ==
    IF name \in DOMAIN I.map
    THEN [interner |-> I, id |-> I.map[name]]
    ELSE LET idx == Len(I.vec)
         IN  [interner |-> [map |-> (name :> idx) @@ I.map, vec |-> <<name>> \o I.vec],
              id |-> idx]

\* intern without the test of the map: every call stores the text again
intern_always_new(I, name) ==
    LET idx == Len(I.vec)
    IN  [interner |-> [map |-> (name :> idx) @@ I.map, vec |-> Append(I.vec, name)],
         id |-> idx]

\* Interner::intern: [interner, id]
intern(I, name) ==
    IF name \in DOMAIN I.map
    THEN [interner |-> I, id |-> I.map[name]]
    ELSE LET idx == Len(I.vec)
         IN  [interner |-> [map |-> (name :> idx) @@ I.map, vec |-> Append(I.vec, name)],
              id |-> idx]

(***************************************************************************)
(* opcodes.rs                                                              *)
(***************************************************************************)
OpReturn == 0
OpConstant == 1
OpConstantLong == 2
OpNil == 3
OpTrue == 4
OpFalse == 5
OpPop == 6
OpGetLocal == 7
OpSetLocal == 8
OpGetGlobal == 9
OpDefineGlobal == 10
OpSetGlobal == 11
OpEqual == 12
OpGreater == 13
OpLess == 14
OpAdd == 15
OpSubtract == 16
OpMultiply == 17
OpDivide == 18
OpNot == 19
OpNegate == 20
OpPrint == 21

\* enum Op: the variants in the order of their declaration; the first has
\* the discriminant 0 and each next one the discriminant after it
Op ==
    <<"Return", "Constant", "ConstantLong", "Nil", "True", "False", "Pop", "GetLocal",
      "SetLocal", "GetGlobal", "DefineGlobal", "SetGlobal", "Equal", "Greater", "Less",
      "Add", "Subtract", "Multiply", "Divide", "Not", "Negate", "Print">>

\* Op::u8: self as u8, the discriminant of the variant
u8(op) == (CHOOSE i \in 1..Len(Op) : Op[i] = op) - 1

\* try_from that takes Print, the last opcode, for out of range
try_from_rejects_print(value) ==
    IF ~(value < u8("Print")) THEN [ok |-> FALSE]
    ELSE [ok |-> TRUE, op |-> Op[value + 1]]

\* TryFrom<u8> for Op: Err(()) above Print, else the variant whose
\* discriminant is the value (transmute)
try_from(value) ==
    IF value > u8("Print") THEN [ok |-> FALSE]
    ELSE [ok |-> TRUE, op |-> Op[value + 1]]

\* Op::from_u8 does not abort on the byte
try_from_ok(byte) == try_from(byte).ok

(***************************************************************************)
(* chunk.rs                                                                *)
(***************************************************************************)
ChunkInit == [code |-> <<>>, constants |-> <<>>, lines |-> <<>>]

\* Chunk::write
write(c, byte, line) ==
    [c EXCEPT !.lines = Append(@, line), !.code = Append(@, byte)]

\* Chunk::add_constant: [chunk, idx]
add_constant(c, value) ==
    [chunk |-> [c EXCEPT !.constants = Append(@, value)],
     idx |-> Len(c.constants)]

\* the limits of the two operand widths (chunk.rs:37, 40)
ShortLimit == 256
LongLimit == 16777216

\* usize::to_le_bytes, split_at(3): the three low bytes, lowest first
le_bytes(constant) ==
    <<constant % 256, (constant \div 256) % 256, (constant \div 65536) % 256>>

\* the operand bytes highest first
be_bytes(constant) ==
    <<(constant \div 65536) % 256, (constant \div 256) % 256, constant % 256>>

\* the long form with its operand bytes highest first
write_long_big_endian(c, constant, line) ==
    LET c1 == write(c, OpConstantLong, line)
        operand == be_bytes(constant)
    IN  write(write(write(c1, operand[1], line), operand[2], line), operand[3], line)

\* Chunk::write_constant, lines 41-44: the long form
write_long(c, constant, line) ==
    LET c1 == write(c, OpConstantLong, line)
        operand == le_bytes(constant)
    IN  write(write(write(c1, operand[1], line), operand[2], line), operand[3], line)

\* the form selection with the short form ending one index early
write_load_short_below_255(c, constant, line) ==
    IF constant < ShortLimit - 1
    THEN [chunk |-> write(write(c, OpConstant, line), constant % 256, line),
          aborted |-> FALSE]
    ELSE [chunk |-> write_long(c, constant, line), aborted |-> FALSE]

\* Chunk::write_constant, lines 37-47: the load of the constant at index
\* constant, [chunk, aborted]
write_load(c, constant, line) ==
    IF constant < ShortLimit
    THEN [chunk |-> write(write(c, OpConstant, line), constant % 256, line),
          aborted |-> FALSE]
    ELSE IF constant < LongLimit
    THEN [chunk |-> write_long(c, constant, line), aborted |-> FALSE]
    ELSE [chunk |-> c, aborted |-> TRUE]

\* Chunk::write_constant: [chunk, aborted]
write_constant(c, value, line) ==
    LET r == add_constant([c EXCEPT !.lines = Append(@, line)], value)
    IN  write_load(r.chunk, r.idx, line)

\* Chunk::disassemble_instruction: the offset of the next instruction
next_offset(opcode, offset) ==
    CASE opcode \in {OpConstant, OpDefineGlobal, OpGetGlobal, OpSetGlobal,
                     OpSetLocal, OpGetLocal} -> offset + 2
      [] opcode = OpConstantLong -> offset + 4
      [] OTHER -> offset + 1

\* Chunk::disassemble: the offsets at which the instructions of code start
RECURSIVE instruction_offsets(_, _)
instruction_offsets(code, offset) ==
    IF offset >= Len(code) THEN {}
    ELSE {offset} \cup instruction_offsets(code, next_offset(code[offset + 1], offset))

(***************************************************************************)
(* vm.rs.  A Vm is the record v:                                           *)
(*   chunk, ip, stack, interner, globals  the fields of struct Vm          *)
(*   out     what print_val has written to standard output                 *)
(*   res     "running" inside run's loop, "Ok" / "Err" once run has        *)
(*           returned, "panic" once an expect / index check has aborted    *)
(*   err     the InterpreterError of an "Err", the message of a "panic"    *)
(* ip and every index are 0-based as in the source; TLA+ sequences are     *)
(* 1-based, hence the "+ 1" at each read.                                  *)
(***************************************************************************)
STACK_UNDERFLOW == "Stack underflow!"
NoError == [kind |-> "None"]

\* Vm::new
VmNew(chunk, interner) ==
    [chunk |-> chunk, ip |-> 0, stack |-> <<>>, interner |-> interner,
     globals |-> <<>>, out |-> <<>>, res |-> "running", err |-> NoError]

\* fault: the failure is returned to the user as a runtime error
Panic_as_runtime_error(v, msg) ==
    [v EXCEPT !.res = "Err", !.err = [kind |-> "RuntimeError", place |-> <<>>,
                                      message |-> msg]]

\* a failed expect() / out-of-range index: the process aborts
Panic(v, msg) == [v EXCEPT !.res = "panic", !.err = [kind |-> "Panic", message |-> msg]]

\* fault: the error is recorded but run keeps looping
ReturnErr_continue(v, e) == [v EXCEPT !.err = e]

\* return Err(e) out of run
ReturnErr(v, e) == [v EXCEPT !.res = "Err", !.err = e]

\* Vm::push
push(v, value) == [v EXCEPT !.stack = Append(@, value)]

\* Vm::pop / Vm::peek: the value (precondition: the stack is not empty, the
\* callers below turn an empty stack into the expect() panic) and the Vm
\* after the pop
peek(v) == v.stack[Len(v.stack)]
pop(v) == [v EXCEPT !.stack = SubSeq(@, 1, Len(@) - 1)]

\* Vm::next_byte: the byte at ip (precondition ip < code.len()), then ip += 1
next_byte_ok(v) == v.ip < Len(v.chunk.code)
next_byte(v) == v.chunk.code[v.ip + 1]
advance_ip(v) == [v EXCEPT !.ip = @ + 1]

\* Vm::read_constant
read_constant_ok(v, index) == index < Len(v.chunk.constants)
read_constant(v, index) == v.chunk.constants[index + 1]

\* Vm::runtime_error: "[line N] in script\n<message>", N = lines[ip - 1]
runtime_error(v, message) ==
    [kind |-> "RuntimeError", place |-> <<v.chunk.lines[(v.ip - 1) + 1]>>,
     message |-> message]

\* the RuntimeError built in place by the GetGlobal and SetGlobal arms:
\* format!("Undefined variable '{}'", name), with no "[line N] in script"
undefined_variable(name) ==
    [kind |-> "RuntimeError", place |-> <<>>,
     message |-> "Undefined variable '" \o name \o "'"]

\* falsey that takes the number zero for false as well
is_falsey_zero(val) ==
    CASE val.tag = "Nil" -> TRUE
      [] val.tag = "Bool" -> ~val.b
      [] val.tag = "Number" -> IsZero(val.f)
      [] OTHER -> FALSE

\* Vm::is_falsey
is_falsey(val) ==
    CASE val.tag = "Nil" -> TRUE
      [] val.tag = "Bool" -> ~val.b
      [] OTHER -> FALSE

\* Vm::print_val: a string prints its text, any other value its Display
print_val(v, val) ==
    IF val.tag = "Obj"
    THEN [v EXCEPT !.out = Append(@, [text |-> lookup(v.interner, val.id)])]
    ELSE [v EXCEPT !.out = Append(@, [display |-> val])]

\* n1 $operator n2 and Value::$variant(..) for the token arguments that
\* the uses of binary_op! pass
apply_operator(operator, n1, n2) ==
    CASE operator = "-" -> FSub(n1, n2)
      [] operator = "*" -> FMul(n1, n2)
      [] operator = "/" -> FDiv(n1, n2)
      [] operator = ">" -> FGreater(n1, n2)
      [] operator = "<" -> FLess(n1, n2)
apply_variant(variant, x) ==
    CASE variant = "Number" -> Number(x)
      [] variant = "Bool" -> Bool(x)

\* macro binary_op!($self, $operator, $variant)
binary_op(v, operator, variant) ==
    IF Len(v.stack) < 2 THEN Panic(v, STACK_UNDERFLOW)
    ELSE LET b == peek(v)
             a == peek(pop(v))
             v2 == pop(pop(v))
         IN  IF a.tag = "Number" /\ b.tag = "Number"
             THEN push(v2, apply_variant(variant, apply_operator(operator, a.f, b.f)))
             ELSE ReturnErr(push(push(v2, a), b),
                            runtime_error(v, "Operands must be numbers."))

\* macro read_string!($self): [ok, v (ip past the operand), name]
read_string(v) ==
    IF ~next_byte_ok(v) THEN [ok |-> FALSE, v |-> Panic(v, "index out of bounds")]
    ELSE LET index == next_byte(v)
             v1 == advance_ip(v)
         IN  IF ~read_constant_ok(v1, index)
             THEN [ok |-> FALSE, v |-> Panic(v1, "index out of bounds")]
             ELSE LET name == as_string(read_constant(v1, index))
                  IN  IF ~name.some
                      THEN [ok |-> FALSE, v |-> Panic(v1, "variable not a string!")]
                      ELSE IF ~lookup_ok(v1.interner, name.id)
                      THEN [ok |-> FALSE, v |-> Panic(v1, "index out of bounds")]
                      ELSE [ok |-> TRUE, v |-> v1, name |-> lookup(v1.interner, name.id)]

\* fault: entry(name).or_insert(value), an existing binding is kept
globals_insert_keep(v, name, value) ==
    IF name \in DOMAIN v.globals THEN v
    ELSE [v EXCEPT !.globals = (name :> value) @@ @]

\* AHashMap::insert on globals
globals_insert(v, name, value) ==
    [v EXCEPT !.globals = (name :> value) @@ @]

(* the arms of the match in Vm::run, entered after the opcode byte is read *)
Run_Return(v) == [v EXCEPT !.res = "Ok"]

Run_Constant(v) ==
    IF ~next_byte_ok(v) THEN Panic(v, "index out of bounds")
    ELSE LET index == next_byte(v)
             v1 == advance_ip(v)
         IN  IF ~read_constant_ok(v1, index) THEN Panic(v1, "index out of bounds")
             ELSE push(v1, read_constant(v1, index))

Run_Negate(v) ==
    IF Len(v.stack) < 1 THEN Panic(v, STACK_UNDERFLOW)
    ELSE LET val == peek(v)
             v1 == pop(v)
         IN  IF val.tag = "Number"
             THEN push(v1, Number(FNeg(val.f)))
             ELSE ReturnErr(push(v1, val), runtime_error(v, "Operand must be a number."))

\* fault: the rejected operands are pushed back b first
Run_Add_pushback_swapped(v) ==
    IF Len(v.stack) < 2 THEN Panic(v, STACK_UNDERFLOW)
    ELSE LET b == peek(v)
             a == peek(pop(v))
             v2 == pop(pop(v))
         IN  IF b.tag = "Obj" /\ a.tag = "Obj"
             THEN LET concatenated ==
                          intern(v2.interner,
                                 lookup(v2.interner, a.id) \o lookup(v2.interner, b.id))
                  IN  push([v2 EXCEPT !.interner = concatenated.interner],
                           from_str_index(concatenated.id))
             ELSE IF b.tag = "Number" /\ a.tag = "Number"
             THEN push(v2, Number(FAdd(a.f, b.f)))
             ELSE ReturnErr(push(push(v2, b), a),
                            runtime_error(v, "Operands must be two numbers."))

\* fault: the texts are concatenated right operand first
Run_Add_reversed(v) ==
    IF Len(v.stack) < 2 THEN Panic(v, STACK_UNDERFLOW)
    ELSE LET b == peek(v)
             a == peek(pop(v))
             v2 == pop(pop(v))
         IN  IF b.tag = "Obj" /\ a.tag = "Obj"
             THEN LET concatenated ==
                          intern(v2.interner,
                                 lookup(v2.interner, b.id) \o lookup(v2.interner, a.id))
                  IN  push([v2 EXCEPT !.interner = concatenated.interner],
                           from_str_index(concatenated.id))
             ELSE IF b.tag = "Number" /\ a.tag = "Number"
             THEN push(v2, Number(FAdd(a.f, b.f)))
             ELSE ReturnErr(push(push(v2, a), b),
                            runtime_error(v, "Operands must be two numbers."))

Run_Add(v) ==
    IF Len(v.stack) < 2 THEN Panic(v, STACK_UNDERFLOW)
    ELSE LET b == peek(v)
             a == peek(pop(v))
             v2 == pop(pop(v))
         IN  IF b.tag = "Obj" /\ a.tag = "Obj"
             THEN \* Object has the single variant String: the inner if-let
                  \* always matches
                  IF ~lookup_ok(v2.interner, a.id) \/ ~lookup_ok(v2.interner, b.id)
                  THEN Panic(v2, "index out of bounds")
                  ELSE LET first == lookup(v2.interner, a.id)
                           second == lookup(v2.interner, b.id)
                           concatenated == intern(v2.interner, first \o second)
                       IN  push([v2 EXCEPT !.interner = concatenated.interner],
                                from_str_index(concatenated.id))
             ELSE IF b.tag = "Number" /\ a.tag = "Number"
             THEN push(v2, Number(FAdd(a.f, b.f)))
             ELSE ReturnErr(push(push(v2, a), b),
                            runtime_error(v, "Operands must be two numbers."))

Run_Subtract(v) == binary_op(v, "-", "Number")
Run_Multiply(v) == binary_op(v, "*", "Number")
Run_Divide(v) == binary_op(v, "/", "Number")

Run_Nil(v) == push(v, Nil)
Run_True(v) == push(v, Bool(TRUE))
Run_False(v) == push(v, Bool(FALSE))

Run_Not(v) ==
    IF Len(v.stack) < 1 THEN Panic(v, STACK_UNDERFLOW)
    ELSE push(pop(v), Bool(is_falsey(peek(v))))

\* Equal that pops one operand only
Run_Equal_keeps_operand(v) ==
    IF Len(v.stack) < 2 THEN Panic(v, STACK_UNDERFLOW)
    ELSE LET b == peek(v)
             a == peek(pop(v))
         IN  push(pop(v), Bool(ValueEq(a, b)))

Run_Equal(v) ==
    IF Len(v.stack) < 2 THEN Panic(v, STACK_UNDERFLOW)
    ELSE LET b == peek(v)
             a == peek(pop(v))
         IN  push(pop(pop(v)), Bool(ValueEq(a, b)))

\* Greater that compares as Less does
Run_Greater_as_less(v) == binary_op(v, "<", "Bool")

Run_Greater(v) == binary_op(v, ">", "Bool")
Run_Less(v) == binary_op(v, "<", "Bool")

Run_Print(v) ==
    IF Len(v.stack) < 1 THEN Panic(v, STACK_UNDERFLOW)
    ELSE print_val(pop(v), peek(v))

Run_Pop(v) ==
    IF Len(v.stack) < 1 THEN Panic(v, STACK_UNDERFLOW)
    ELSE pop(v)

Run_DefineGlobal(v) ==
    LET r == read_string(v)
    IN  IF ~r.ok THEN r.v
        ELSE IF Len(r.v.stack) < 1 THEN Panic(r.v, STACK_UNDERFLOW)
        ELSE globals_insert(pop(r.v), r.name, peek(r.v))

Run_GetGlobal(v) ==
    LET r == read_string(v)
    IN  IF ~r.ok THEN r.v
        ELSE IF r.name \in DOMAIN r.v.globals
        THEN push(r.v, r.v.globals[r.name])
        ELSE ReturnErr(r.v, undefined_variable(r.name))

\* fault: the assignment to a bound name is dropped
Run_SetGlobal_lost(v) ==
    LET r == read_string(v)
    IN  IF ~r.ok THEN r.v
        ELSE IF r.name \in DOMAIN r.v.globals
        THEN (IF Len(r.v.stack) < 1 THEN Panic(r.v, STACK_UNDERFLOW) ELSE r.v)
        ELSE ReturnErr(r.v, undefined_variable(r.name))

\* fault: the binding is inserted before the name is found to be new
Run_SetGlobal_insert_first(v) ==
    LET r == read_string(v)
    IN  IF ~r.ok THEN r.v
        ELSE IF Len(r.v.stack) < 1 THEN Panic(r.v, STACK_UNDERFLOW)
        ELSE IF r.name \in DOMAIN r.v.globals
        THEN globals_insert(r.v, r.name, peek(r.v))
        ELSE ReturnErr(globals_insert(r.v, r.name, peek(r.v)), undefined_variable(r.name))

\* fault: the assigned value is popped, as DefineGlobal does
Run_SetGlobal_pops(v) ==
    LET r == read_string(v)
    IN  IF ~r.ok THEN r.v
        ELSE IF r.name \in DOMAIN r.v.globals
        THEN (IF Len(r.v.stack) < 1 THEN Panic(r.v, STACK_UNDERFLOW)
              ELSE globals_insert(pop(r.v), r.name, peek(r.v)))
        ELSE ReturnErr(r.v, undefined_variable(r.name))

Run_SetGlobal(v) ==
    LET r == read_string(v)
    IN  IF ~r.ok THEN r.v
        ELSE IF r.name \in DOMAIN r.v.globals
        THEN (IF Len(r.v.stack) < 1 THEN Panic(r.v, STACK_UNDERFLOW)
              ELSE globals_insert(r.v, r.name, peek(r.v)))
        ELSE ReturnErr(r.v, undefined_variable(r.name))

Run_GetLocal(v) ==
    IF ~next_byte_ok(v) THEN Panic(v, "index out of bounds")
    ELSE LET slot == next_byte(v)
             v1 == advance_ip(v)
         IN  IF slot >= Len(v1.stack) THEN Panic(v1, "index out of bounds")
             ELSE push(v1, v1.stack[slot + 1])

Run_SetLocal(v) ==
    IF ~next_byte_ok(v) THEN Panic(v, "index out of bounds")
    ELSE LET slot == next_byte(v)
             v1 == advance_ip(v)
         IN  IF Len(v1.stack) < 1 THEN Panic(v1, STACK_UNDERFLOW)
             ELSE IF slot >= Len(v1.stack) THEN Panic(v1, "index out of bounds")
             ELSE [v1 EXCEPT !.stack[slot + 1] = peek(v1)]

\* the match of Vm::run on the decoded instruction
dispatch(v, instruction) ==
    CASE instruction = "Return" -> Run_Return(v)
      [] instruction \in {"Constant", "ConstantLong"} -> Run_Constant(v)
      [] instruction = "Negate" -> Run_Negate(v)
      [] instruction = "Add" -> Run_Add(v)
      [] instruction = "Subtract" -> Run_Subtract(v)
      [] instruction = "Multiply" -> Run_Multiply(v)
      [] instruction = "Divide" -> Run_Divide(v)
      [] instruction = "Nil" -> Run_Nil(v)
      [] instruction = "True" -> Run_True(v)
      [] instruction = "False" -> Run_False(v)
      [] instruction = "Not" -> Run_Not(v)
      [] instruction = "Equal" -> Run_Equal(v)
      [] instruction = "Greater" -> Run_Greater(v)
      [] instruction = "Less" -> Run_Less(v)
      [] instruction = "Print" -> Run_Print(v)
      [] instruction = "Pop" -> Run_Pop(v)
      [] instruction = "DefineGlobal" -> Run_DefineGlobal(v)
      [] instruction = "GetGlobal" -> Run_GetGlobal(v)
      [] instruction = "SetGlobal" -> Run_SetGlobal(v)
      [] instruction = "GetLocal" -> Run_GetLocal(v)
      [] instruction = "SetLocal" -> Run_SetLocal(v)

\* one iteration of the loop of Vm::run (precondition v.res = "running")
run_iteration(v) ==
    IF v.ip >= Len(v.chunk.code) THEN [v EXCEPT !.res = "Ok"]
    ELSE LET byte == next_byte(v)
             v1 == advance_ip(v)
         IN  IF ~try_from_ok(byte) THEN Panic(v1, "unexpected opcode!")
             ELSE dispatch(v1, try_from(byte).op)

(***************************************************************************)
(* scanner.rs and token.rs are not among the sources.  A Token is          *)
(* [kind, lexeme, line] with the TokenKinds that Parser::find_rule         *)
(* matches on; the Scanner is a cursor over the token sequence of the      *)
(* source text that yields Eof at the end of input and again on every      *)
(* later call.                                                             *)
(***************************************************************************)
\* Option<Token>::None
NoToken == [kind |-> "None", lexeme |-> "", line |-> 0]

\* Scanner::new
ScannerNew(tokens) == [tokens |-> tokens, pos |-> 0]

\* the Eof token: on the line of the last token of the source
EofToken(sc) ==
    [kind |-> "Eof", lexeme |-> "",
     line |-> IF sc.tokens = <<>> THEN 1 ELSE sc.tokens[Len(sc.tokens)].line]

\* Scanner::scan_token: [tok, sc]
scan_token(sc) ==
    IF sc.pos < Len(sc.tokens)
    THEN [tok |-> sc.tokens[sc.pos + 1], sc |-> [sc EXCEPT !.pos = @ + 1]]
    ELSE [tok |-> EofToken(sc), sc |-> sc]

(***************************************************************************)
(* parser.rs.  A Parser is the record p:                                   *)
(*   scanner, current, previous, had_error, panic_mode   fields of Parser  *)
(*   current_chunk, interner   the Chunk and Interner it borrows           *)
(*   stderr    the diagnostics error_at has written to standard error      *)
(*   aborted   an expect() of the parser has failed (sticky: what is       *)
(*             computed after it is never observed)                        *)
(* A function that returns a value returns [p, <value>].                   *)
(* A function that reads the parser it is given more than once binds it    *)
(* first (p \in {self}), so that the calls that produce it are evaluated    *)
(* once.                                                                   *)
(***************************************************************************)
PrecNone == 0
PrecAssignment == 1
PrecOr == 2
PrecAnd == 3
PrecEquality == 4
PrecComparison == 5
PrecTerm == 6
PrecFactor == 7
PrecUnary == 8
PrecCall == 9
PrecPrimary == 10

\* ParseRule::new / ParseRule::none, the parse functions by name
ParseRule(prefix, infix, precedence) ==
    [prefix |-> prefix, infix |-> infix, precedence |-> precedence]

\* Parser::find_rule
find_rule(op_kind) ==
    CASE op_kind = "LeftParen" -> ParseRule("grouping", "None", PrecNone)
      [] op_kind = "Minus" -> ParseRule("unary", "binary", PrecTerm)
      [] op_kind = "Plus" -> ParseRule("None", "binary", PrecTerm)
      [] op_kind = "Slash" -> ParseRule("None", "binary", PrecFactor)
      [] op_kind = "Star" -> ParseRule("None", "binary", PrecFactor)
      [] op_kind = "Bang" -> ParseRule("unary", "None", PrecNone)
      [] op_kind = "BangEqual" -> ParseRule("None", "binary", PrecEquality)
      [] op_kind = "EqualEqual" -> ParseRule("None", "binary", PrecEquality)
      [] op_kind = "Greater" -> ParseRule("None", "binary", PrecComparison)
      [] op_kind = "GreaterEqual" -> ParseRule("None", "binary", PrecComparison)
      [] op_kind = "Less" -> ParseRule("None", "binary", PrecComparison)
      [] op_kind = "LessEqual" -> ParseRule("None", "binary", PrecComparison)
      [] op_kind = "Identifier" -> ParseRule("variable", "None", PrecNone)
      [] op_kind = "String" -> ParseRule("string", "None", PrecNone)
      [] op_kind = "Number" -> ParseRule("number", "None", PrecNone)
      [] op_kind = "False" -> ParseRule("literal", "None", PrecNone)
      [] op_kind = "Nil" -> ParseRule("literal", "None", PrecNone)
      [] op_kind = "True" -> ParseRule("literal", "None", PrecNone)
      [] OTHER -> ParseRule("None", "None", PrecNone)

\* the one element of a singleton set
The(S) == CHOOSE r \in S : TRUE

\* Parser::new
ParserNew(scanner, chunk, interner) ==
    [scanner |-> scanner, current |-> NoToken, previous |-> NoToken,
     had_error |-> FALSE, panic_mode |-> FALSE,
     current_chunk |-> chunk, interner |-> interner,
     stderr |-> <<>>, aborted |-> FALSE]

\* the text eprint!ed by error_at for a token
Diagnostic(token, message) ==
    IF token.kind = "None"
    THEN [kind |-> "CompileError", text |-> "Parser error."]
    ELSE [kind |-> "CompileError", line |-> token.line,
          at |-> CASE token.kind = "Eof" -> " at end"
                   [] token.kind = "Error" -> ""
                   [] OTHER -> " at '" \o token.lexeme \o "' ",
          message |-> message]

\* Parser::error_at
error_at(p, token, message) ==
    LET p1 == [p EXCEPT !.had_error = TRUE]
    IN  IF p1.panic_mode THEN p1
        ELSE [p1 EXCEPT !.stderr = Append(@, Diagnostic(token, message))]

\* Parser::error
error(p, message) == error_at(p, p.previous, message)

\* Parser::error_at_current
error_at_current(p, message) == error_at(p, p.current, message)

\* Parser::advance: the loop skips (and reports) Error tokens
RECURSIVE advance_loop(_)
advance_loop(self) ==
    The({
        LET r == scan_token(p.scanner)
            p1 == [p EXCEPT !.scanner = r.sc, !.current = r.tok]
        IN  IF r.tok.kind # "Error" THEN p1
            ELSE advance_loop(error_at_current(p1, ""))
    : p \in {self}})

advance(p) == advance_loop([p EXCEPT !.previous = p.current, !.current = NoToken])

\* Parser::check (current is Some after the first advance)
check(p, kind) == p.current.kind = kind

\* Parser::match_current: [p, matched]
match_current(self, kind) ==
    The({
        IF ~check(p, kind) THEN [p |-> p, matched |-> FALSE]
        ELSE [p |-> advance(p), matched |-> TRUE]
    : p \in {self}})

\* Parser::consume
consume(self, token_kind, error_msg) ==
    The({
        IF p.current.kind = token_kind THEN advance(p)
        ELSE error_at_current(p, error_msg)
    : p \in {self}})

\* Parser::emit_byte
emit_byte(self, byte) ==
    The({
        [p EXCEPT !.current_chunk = write(@, byte, p.previous.line)]
    : p \in {self}})

\* emit_bytes that emits the second byte first
emit_bytes_reversed(p, byte1, byte2) == emit_byte(emit_byte(p, byte2), byte1)

\* Parser::emit_bytes
emit_bytes(p, byte1, byte2) == emit_byte(emit_byte(p, byte1), byte2)

\* Parser::emit_return
emit_return(p) == emit_byte(p, OpReturn)

\* end_compiler without its Return
end_compiler_without_return(p) == p

\* Parser::end_compiler (the disassembly it prints is not modelled)
end_compiler(p) == emit_return(p)

\* make_constant yielding the length of the pool after the addition
make_constant_one_past(self, val) ==
    The({
        LET r == add_constant(p.current_chunk, val)
        IN  [p |-> [p EXCEPT !.current_chunk = r.chunk,
                             !.aborted = @ \/ r.idx > 255],
             idx |-> (r.idx + 1) % 256]
    : p \in {self}})

\* Parser::make_constant: [p, idx]; try_into::<u8>() fails above 255
make_constant(self, val) ==
    The({
        LET r == add_constant(p.current_chunk, val)
        IN  [p |-> [p EXCEPT !.current_chunk = r.chunk,
                             !.aborted = @ \/ r.idx > 255],
             idx |-> r.idx % 256]
    : p \in {self}})

\* Parser::emit_constant
emit_constant(self, val) ==
    The({
        LET r == make_constant(p, val)
        IN  emit_bytes(r.p, OpConstant, r.idx)
    : p \in {self}})

\* str::parse::<f64> on the lexeme of a Number token made of digits
DigitValue(c) ==
    CASE c = "0" -> 0 [] c = "1" -> 1 [] c = "2" -> 2 [] c = "3" -> 3 [] c = "4" -> 4
      [] c = "5" -> 5 [] c = "6" -> 6 [] c = "7" -> 7 [] c = "8" -> 8 [] c = "9" -> 9

RECURSIVE parse_digits(_, _)
parse_digits(lexeme, acc) ==
    IF lexeme = "" THEN acc
    ELSE parse_digits(SubSeq(lexeme, 2, Len(lexeme)),
                      acc * 10 + DigitValue(SubSeq(lexeme, 1, 1)))

parse_f64(lexeme) == FromInt(parse_digits(lexeme, 0))

\* Parser::number
number(p, can_assign) == emit_constant(p, Number(parse_f64(p.previous.lexeme)))

\* Parser::literal
literal(p, can_assign) ==
    CASE p.previous.kind = "False" -> emit_byte(p, OpFalse)
      [] p.previous.kind = "True" -> emit_byte(p, OpTrue)
      [] p.previous.kind = "Nil" -> emit_byte(p, OpNil)

\* Parser::string: the lexeme without its quotes, interned
string(self, can_assign) ==
    The({
        LET contents == SubSeq(p.previous.lexeme, 2, Len(p.previous.lexeme) - 1)
        IN  IF exists(p.interner, contents)
            THEN emit_constant(p, from_str_index(get_existing(p.interner, contents)))
            ELSE LET r == intern(p.interner, contents)
                 IN  emit_constant([p EXCEPT !.interner = r.interner], from_str_index(r.id))
    : p \in {self}})

\* Parser::identifier_constant: [p, idx]
identifier_constant(self, name) ==
    The({
        LET r == intern(p.interner, name)
        IN  make_constant([p EXCEPT !.interner = r.interner], from_str_index(r.id))
    : p \in {self}})

RECURSIVE parse_precedence(_, _)

\* Parser::expression
expression(p) == parse_precedence(p, PrecAssignment)

\* Parser::grouping
grouping(p, can_assign) ==
    consume(expression(p), "RightParen", "Expect ')' after expression.")

\* Parser::unary
unary(self, can_assign) ==
    The({
        LET op_kind == p.previous.kind
            p1 == parse_precedence(p, PrecUnary)
        IN  CASE op_kind = "Minus" -> emit_byte(p1, OpNegate)
              [] op_kind = "Bang" -> emit_byte(p1, OpNot)
    : p \in {self}})

\* Parser::binary
\* binary that parses its right operand two levels above its operator
binary_two_levels(self, can_assign) ==
    The({
        LET op_kind == p.previous.kind
            rule == find_rule(op_kind)
            p1 == parse_precedence(p, rule.precedence + 2)
        IN  CASE op_kind = "Plus" -> emit_byte(p1, OpAdd)
              [] op_kind = "Minus" -> emit_byte(p1, OpSubtract)
              [] op_kind = "Star" -> emit_byte(p1, OpMultiply)
              [] op_kind = "Slash" -> emit_byte(p1, OpDivide)
              [] op_kind = "BangEqual" -> emit_bytes(p1, OpEqual, OpNot)
              [] op_kind = "EqualEqual" -> emit_byte(p1, OpEqual)
              [] op_kind = "Greater" -> emit_byte(p1, OpGreater)
              [] op_kind = "GreaterEqual" -> emit_bytes(p1, OpLess, OpNot)
              [] op_kind = "Less" -> emit_byte(p1, OpLess)
              [] op_kind = "LessEqual" -> emit_bytes(p1, OpGreater, OpNot)
    : p \in {self}})

binary(self, can_assign) ==
    The({
        LET op_kind == p.previous.kind
            rule == find_rule(op_kind)
            p1 == parse_precedence(p, rule.precedence + 1)
        IN  CASE op_kind = "Plus" -> emit_byte(p1, OpAdd)
              [] op_kind = "Minus" -> emit_byte(p1, OpSubtract)
              [] op_kind = "Star" -> emit_byte(p1, OpMultiply)
              [] op_kind = "Slash" -> emit_byte(p1, OpDivide)
              [] op_kind = "BangEqual" -> emit_bytes(p1, OpEqual, OpNot)
              [] op_kind = "EqualEqual" -> emit_byte(p1, OpEqual)
              [] op_kind = "Greater" -> emit_byte(p1, OpGreater)
              [] op_kind = "GreaterEqual" -> emit_bytes(p1, OpLess, OpNot)
              [] op_kind = "Less" -> emit_byte(p1, OpLess)
              [] op_kind = "LessEqual" -> emit_bytes(p1, OpGreater, OpNot)
    : p \in {self}})

\* Parser::named_variable
named_variable(self, name, can_assign) ==
    The({
        LET r == identifier_constant(p, name)
            arg == r.idx
            m == IF can_assign THEN match_current(r.p, "Equal")
                 ELSE [p |-> r.p, matched |-> FALSE]
        IN  IF m.matched
            THEN emit_bytes(expression(m.p), OpSetGlobal, arg)
            ELSE emit_bytes(m.p, OpGetGlobal, arg)
    : p \in {self}})

\* Parser::variable
variable(p, can_assign) == named_variable(p, p.previous.lexeme, can_assign)

\* a call through the ParseFn stored in a ParseRule
call_rule(fn, p, can_assign) ==
    CASE fn = "grouping" -> grouping(p, can_assign)
      [] fn = "unary" -> unary(p, can_assign)
      [] fn = "binary" -> binary(p, can_assign)
      [] fn = "variable" -> variable(p, can_assign)
      [] fn = "string" -> string(p, can_assign)
      [] fn = "number" -> number(p, can_assign)
      [] fn = "literal" -> literal(p, can_assign)

\* the while loop of Parser::parse_precedence
RECURSIVE infix_loop(_, _, _)
infix_loop(self, precedence, can_assign) ==
    The({
        IF precedence <= find_rule(p.current.kind).precedence
        THEN LET p1 == advance(p)
                 infix_rule == find_rule(p1.previous.kind).infix
             IN  infix_loop(IF infix_rule # "None" THEN call_rule(infix_rule, p1, can_assign)
                            ELSE p1,
                            precedence, can_assign)
        ELSE p
    : p \in {self}})

\* parse_precedence without its test for an '=' left over
invalid_assignment_unchecked(self, can_assign) == self

\* the end of Parser::parse_precedence, lines 207-209
invalid_assignment(self, can_assign) ==
    The({
        LET m == IF can_assign THEN match_current(p, "Equal")
                 ELSE [p |-> p, matched |-> FALSE]
        IN  IF m.matched THEN error(m.p, "Invalid assignment target.")
            ELSE m.p
    : p \in {self}})

\* Parser::parse_precedence
parse_precedence(self, precedence) ==
    The({
        LET prefix_rule == find_rule(p1.previous.kind).prefix
            can_assign == precedence <= PrecAssignment
        IN  IF prefix_rule = "None" THEN error(p1, "Expected expression.")
            ELSE invalid_assignment(infix_loop(call_rule(prefix_rule, p1, can_assign),
                                               precedence, can_assign),
                                    can_assign)
    : p1 \in {advance(self)}})

\* Parser::parse_variable: [p, idx]
parse_variable(self, error_msg) ==
    The({
        LET p1 == consume(p, "Identifier", error_msg)
        IN  identifier_constant(p1, p1.previous.lexeme)
    : p \in {self}})

\* Parser::define_variable
define_variable(p, global) == emit_bytes(p, OpDefineGlobal, global)

\* var_declaration that emits nothing in place of a missing initializer
var_declaration_without_nil(self) ==
    The({
        LET r == parse_variable(p, "Expect variable name.")
            m == match_current(r.p, "Equal")
            p2 == IF m.matched THEN expression(m.p) ELSE m.p
            p3 == consume(p2, "Semicolon", "Expect ';' after variable declaration.")
        IN  define_variable(p3, r.idx)
    : p \in {self}})

\* Parser::var_declaration
var_declaration(self) ==
    The({
        LET r == parse_variable(p, "Expect variable name.")
            m == match_current(r.p, "Equal")
            p2 == IF m.matched THEN expression(m.p) ELSE emit_byte(m.p, OpNil)
            p3 == consume(p2, "Semicolon", "Expect ';' after variable declaration.")
        IN  define_variable(p3, r.idx)
    : p \in {self}})

\* expression_statement without its Pop
expression_statement_no_pop(p) ==
    consume(expression(p), "Semicolon", "Expected ';' after expression.")

\* Parser::expression_statement
expression_statement(p) ==
    emit_byte(consume(expression(p), "Semicolon", "Expected ';' after expression."),
              OpPop)

\* Parser::print_statement
print_statement(p) ==
    emit_byte(consume(expression(p), "Semicolon", "Expected ';' after value."),
              OpPrint)

\* Parser::statement
statement(self) ==
    The({
        LET m == match_current(p, "Print")
        IN  IF m.matched THEN print_statement(m.p) ELSE expression_statement(m.p)
    : p \in {self}})

\* Parser::synchronize
RECURSIVE synchronize_loop(_)
synchronize_loop(self) ==
    The({
        IF check(p, "Eof") THEN p
        ELSE IF p.previous.kind = "Semicolon" THEN p
        ELSE IF p.current.kind \in {"Class", "Fun", "Var", "For", "If", "While", "Print",
                                    "Return"} THEN p
        ELSE synchronize_loop(advance(p))
    : p \in {self}})

synchronize(p) == synchronize_loop([p EXCEPT !.panic_mode = FALSE])

\* a declaration that leaves the parser where it found it
declaration_consumes_nothing(self) == self

\* Parser::declaration
declaration(self) ==
    The({
        IF p1.panic_mode THEN synchronize(p1) ELSE p1
    : p1 \in {LET m == match_current(self, "Var")
              IN  IF m.matched THEN var_declaration(m.p) ELSE statement(m.p)}})

\* the tail of Parser::compile without its test of had_error
compile_finish_ignores_had_error(p) == [p |-> end_compiler(p), result |-> "Ok"]

\* the tail of Parser::compile, entered with current = Eof already
\* consumed by match_current: [p, result]
compile_finish(p) ==
    IF p.had_error THEN [p |-> p, result |-> "Err"]
    ELSE [p |-> end_compiler(p), result |-> "Ok"]

(***************************************************************************)
(* State.                                                                  *)
(*   chunk, interner   the Chunk and the Interner created by run_script    *)
(*                     (lib.rs:22-23), lent to the Parser, then moved      *)
(*                     into the Vm                                         *)
(*   ip, stack, globals  the remaining fields of struct Vm                 *)
(*   out               standard output as written by print_val             *)
(*   res, err          the state of Vm::run ("idle" before Vm::new)        *)
(*   pc                where the driver is                                 *)
(*   trace             history: one entry per instruction Vm::run has      *)
(*                     executed (opcode, the name a global instruction     *)
(*                     names, the stack before and after, run's state      *)
(*                     after); read by the properties only                 *)
(*   scanner, current, previous, had_error, panic_mode                     *)
(*                     the fields of struct Parser                         *)
(*   stderr            standard error: the diagnostics of error_at, then   *)
(*                     the runtime error run_script prints                 *)
(*   comp_result       comp_result of run_script: "none" until compile     *)
(*                     has returned, then "Ok" / "Err", or "panic" when    *)
(*                     the parser has aborted                              *)
(*   boundaries        history: the code offsets at which a declaration    *)
(*                     of the source starts or ends; read by the           *)
(*                     properties only                                     *)
(*   calls             history: the calls of write, add_constant and       *)
(*                     write_constant made by a client of the Chunk API    *)
(*                     (SpecChunk); read by the properties only            *)
(***************************************************************************)
VARIABLES chunk, interner, ip, stack, globals, out, res, err, pc, trace,
          scanner, current, previous, had_error, panic_mode,
          stderr, comp_result, boundaries, calls

vars == <<chunk, interner, ip, stack, globals, out, res, err, pc, trace,
          scanner, current, previous, had_error, panic_mode,
          stderr, comp_result, boundaries, calls>>

\* the fields of the Vm that are not shared with the Parser
vmVars == <<ip, stack, globals, out, res, err, trace>>

\* the fields of the Parser
parserVars == <<scanner, current, previous, had_error, panic_mode>>

\* the Vm as the record the operators of vm.rs work on
TheVm ==
    [chunk |-> chunk, ip |-> ip, stack |-> stack, interner |-> interner,
     globals |-> globals, out |-> out, res |-> res, err |-> err]

SetVm(v) ==
    /\ chunk' = v.chunk
    /\ ip' = v.ip
    /\ stack' = v.stack
    /\ interner' = v.interner
    /\ globals' = v.globals
    /\ out' = v.out
    /\ res' = v.res
    /\ err' = v.err

\* the Parser as the record the operators of parser.rs work on
TheParser ==
    [scanner |-> scanner, current |-> current, previous |-> previous,
     had_error |-> had_error, panic_mode |-> panic_mode,
     current_chunk |-> chunk, interner |-> interner,
     stderr |-> stderr, aborted |-> FALSE]

SetParser(p) ==
    /\ scanner' = p.scanner
    /\ current' = p.current
    /\ previous' = p.previous
    /\ had_error' = p.had_error
    /\ panic_mode' = p.panic_mode
    /\ chunk' = p.current_chunk
    /\ interner' = p.interner
    /\ stderr' = p.stderr

(***************************************************************************)
(* Hand-assembled chunks (a client of the pub Chunk and Vm API): the       *)
(* interner holds "x" and "y", the constant pool is                        *)
(*   0: "x"   1: "y"   2: 1.0   3: 2.0                                     *)
(* and the code is any sequence of at most MaxInstrs instructions, or of   *)
(* at most MaxGlobalUnits statements on globals, written with              *)
(* Chunk::write, the k-th instruction on source line k.                    *)
(***************************************************************************)
HandInterner ==
    intern(intern(intern(InternerNew, "x").interner, "y").interner, "").interner

HandConstants ==
    <<from_str_index(0), from_str_index(1), Number(FromInt(1)), Number(FromInt(2))>>

\* every instruction, as opcode byte followed by its operand bytes
AllInstrs ==
    {<<op>> : op \in {OpReturn, OpNil, OpTrue, OpFalse, OpPop, OpEqual, OpGreater,
                      OpLess, OpAdd, OpSubtract, OpMultiply, OpDivide, OpNot,
                      OpNegate, OpPrint}}
    \cup {<<OpConstant, k>> : k \in 0..3}
    \cup {<<OpConstantLong, 2, 0, 0>>}
    \cup {<<OpGetLocal, 0>>, <<OpSetLocal, 0>>}
    \cup {<<op, 0>> : op \in {OpGetGlobal, OpDefineGlobal, OpSetGlobal}}

\* what a statement on globals compiles to, without the trailing Pop: a
\* value (Nil or true) defined as or assigned to x or y, or a read of x or y
GlobalUnits ==
    {<<val, <<op, k>>>> : val \in {<<OpNil>>, <<OpTrue>>},
                           op \in {OpDefineGlobal, OpSetGlobal}, k \in 0..1}
    \cup {<<<<OpGetGlobal, k>>>> : k \in 0..1}

\* the sequences of at most n elements of S
SeqsUpTo(S, n) == UNION {[1..k -> S] : k \in 0..n}

RECURSIVE Flatten(_)
Flatten(ss) == IF ss = <<>> THEN <<>> ELSE Head(ss) \o Flatten(Tail(ss))

HandPrograms ==
    SeqsUpTo(AllInstrs, MaxInstrs)
    \cup {Flatten(units) : units \in SeqsUpTo(GlobalUnits, MaxGlobalUnits)}

RECURSIVE write_bytes(_, _, _)
write_bytes(c, bytes, line) ==
    IF bytes = <<>> THEN c
    ELSE write_bytes(write(c, Head(bytes), line), Tail(bytes), line)

RECURSIVE assemble(_, _, _)
assemble(c, prog, k) ==
    IF k > Len(prog) THEN c
    ELSE assemble(write_bytes(c, prog[k], k), prog, k + 1)

HandChunk(prog) == assemble([ChunkInit EXCEPT !.constants = HandConstants], prog, 1)

\* chunks that load two constants and apply one instruction to them, for
\* every two values of a set that has each type, NaN, both zeros and an
\* infinity, the empty string (id 2) and two other strings; chunks of one
\* byte, for every byte; and chunks of one opcode and the operand 0 with
\* an empty constant pool
OperandChunks ==
    LET numbers == {FromInt(1), FromInt(2), Zero(1), Zero(-1), NaN, Inf(1)}
        values == {Nil, Bool(TRUE), Bool(FALSE)} \cup {Number(f) : f \in numbers}
                      \cup {from_str_index(id) : id \in 0..2}
        ops == {OpEqual, OpNot, OpGreater, OpLess, OpAdd}
        pool(a, b) == add_constant(add_constant(ChunkInit, a).chunk, b).chunk
    IN  {write_bytes(pool(a, b), <<OpConstant, 0, OpConstant, 1, op>>, 1) :
            a \in values, b \in values, op \in ops}
        \cup {write(ChunkInit, byte, 1) : byte \in 0..255}
        \cup {write_bytes(ChunkInit, <<byte, 0>>, 1) : byte \in 0..OpPrint}

InitVm ==
    /\ chunk \in {HandChunk(prog) : prog \in HandPrograms} \cup OperandChunks
    /\ interner = HandInterner
    /\ ip = 0
    /\ stack = <<>>
    /\ globals = <<>>
    /\ out = <<>>
    /\ res = "idle"
    /\ err = NoError
    /\ pc = "new"
    /\ trace = <<>>
    /\ scanner = ScannerNew(<<>>)
    /\ current = NoToken
    /\ previous = NoToken
    /\ had_error = FALSE
    /\ panic_mode = FALSE
    /\ stderr = <<>>
    /\ comp_result = "none"
    /\ boundaries = {}
    /\ calls = <<>>

(***************************************************************************)
(* Actions.                                                                *)
(***************************************************************************)
\* the opcode Vm::run is about to decode; -1 at the end of the code
NextOp == IF ip < Len(chunk.code) THEN chunk.code[ip + 1] ELSE -1

\* the name the instruction about to run names through its operand, or
\* [ok |-> FALSE] when read_string! would abort
NextName == LET r == read_string(advance_ip(TheVm))
            IN  IF r.ok THEN [ok |-> TRUE, name |-> r.name] ELSE [ok |-> FALSE]

\* the history entry of the iteration that takes the Vm to v
Event(v) ==
    [op |-> NextOp,
     name |-> IF NextOp \in {OpGetGlobal, OpDefineGlobal, OpSetGlobal} /\ NextName.ok
              THEN NextName.name ELSE "",
     before |-> stack, after |-> v.stack, res |-> v.res]

\* let mut vm = Vm::new(chunk, interner)
NewVm ==
    /\ pc = "new"
    /\ SetVm(VmNew(chunk, interner))
    /\ pc' = "run"
    /\ trace' = trace
    /\ UNCHANGED <<parserVars, stderr, comp_result, boundaries, calls>>

\* one iteration of the loop of vm.run()
Step ==
    /\ pc = "run"
    /\ res = "running"
    /\ SetVm(run_iteration(TheVm))
    /\ trace' = IF NextOp = -1 THEN trace ELSE Append(trace, Event(run_iteration(TheVm)))
    /\ pc' = pc
    /\ UNCHANGED <<parserVars, stderr, comp_result, boundaries, calls>>

\* run has returned, and run_script prints its error if it is one, or the
\* process has aborted
Exit ==
    /\ pc = "run"
    /\ res \in {"Ok", "Err", "panic"}
    /\ pc' = "done"
    /\ stderr' = IF res = "Err" THEN Append(stderr, err) ELSE stderr
    /\ UNCHANGED <<chunk, interner, vmVars, parserVars, comp_result, boundaries, calls>>

NextVm == NewVm \/ Step \/ Exit

SpecVm == InitVm /\ [][NextVm]_vars

(***************************************************************************)
(* run_script (lib.rs).  The sources: programs of at most MaxStmts         *)
(* statements, the i-th on line i, each wrapping one of the expressions    *)
(*   1   "a"   x   x = 1   1 + x   (x = "a")   1 + x = 2   1 +             *)
(* (the last two are not expressions of the language), and the token       *)
(* sequences of at most MaxSoup tokens on line 1, among them Error tokens, *)
(* the statements that assign to what is not a variable, and one program   *)
(* with MaxLiterals number literals.                                       *)
(***************************************************************************)
Tok(kind, lexeme) == [kind |-> kind, lexeme |-> lexeme]

\* the tokens the sources are made of
T ==
    [var |-> Tok("Var", "var"),
     print |-> Tok("Print", "print"),
     semicolon |-> Tok("Semicolon", ";"),
     equal |-> Tok("Equal", "="),
     plus |-> Tok("Plus", "+"),
     minus |-> Tok("Minus", "-"),
     left_paren |-> Tok("LeftParen", "("),
     right_paren |-> Tok("RightParen", ")"),
     star |-> Tok("Star", "*"),
     slash |-> Tok("Slash", "/"),
     bang_equal |-> Tok("BangEqual", "!="),
     greater |-> Tok("Greater", ">"),
     greater_equal |-> Tok("GreaterEqual", ">="),
     less |-> Tok("Less", "<"),
     less_equal |-> Tok("LessEqual", "<="),
     zero |-> Tok("Number", "0"),
     one |-> Tok("Number", "1"),
     two |-> Tok("Number", "2"),
     three |-> Tok("Number", "3"),
     str_a |-> Tok("String", "\"a\""),
     str_b |-> Tok("String", "\"b\""),
     str_ab |-> Tok("String", "\"ab\""),
     str_empty |-> Tok("String", "\"\""),
     equal_equal |-> Tok("EqualEqual", "=="),
     x |-> Tok("Identifier", "x"),
     ab |-> Tok("Identifier", "ab"),
     error |-> Tok("Error", "Unexpected character.")]

Exprs ==
    {<<T.one>>, <<T.str_a>>, <<T.x>>, <<T.x, T.equal, T.one>>, <<T.one, T.plus, T.x>>,
     <<T.left_paren, T.x, T.equal, T.str_a, T.right_paren>>,
     <<T.one, T.plus, T.x, T.equal, T.two>>, <<T.one, T.plus>>}

Stmts ==
    {<<T.var, T.x, T.semicolon>>}
    \cup {<<T.var, T.x, T.equal>> \o e \o <<T.semicolon>> : e \in Exprs}
    \cup {<<T.print>> \o e \o <<T.semicolon>> : e \in Exprs}
    \cup {e \o <<T.semicolon>> : e \in Exprs}
    \cup {<<T.x, T.equal>> \o e \o <<T.semicolon>> : e \in Exprs}

\* expressions that are not assignment targets, and the statements that
\* assign to them: e = 1;  print e = 1;  var x = e = 1;  x = e = 1;
NotTargets ==
    {<<T.one, T.plus, T.x>>, <<T.minus, T.x>>, <<T.left_paren, T.x, T.right_paren>>,
     <<T.one>>, <<T.str_a>>}

InvalidAssignments ==
    {pre \o e \o <<T.equal, T.one, T.semicolon>> :
        pre \in {<<>>, <<T.print>>, <<T.var, T.x, T.equal>>, <<T.x, T.equal>>},
        e \in NotTargets}

\* the statement 1 + 1 + ... + 1; with n literals, and the statements of a
\* program of such sums that has n literals in all, 16 to a statement
RECURSIVE Sum(_)
Sum(n) == IF n = 1 THEN <<T.one, T.semicolon>> ELSE <<T.one, T.plus>> \o Sum(n - 1)

RECURSIVE Sums(_)
Sums(n) == IF n <= 16 THEN <<Sum(n)>> ELSE <<Sum(16)>> \o Sums(n - 16)

\* programs that compare strings from literals, from variables and from
\* concatenation, among them texts that an identifier or a literal has
\* interned before the concatenation yields them
StringPrograms ==
    LET a_plus_b == <<T.str_a, T.plus, T.str_b>>
        PrintEq(l, r) == <<T.print>> \o l \o <<T.equal_equal>> \o r \o <<T.semicolon>>
    IN  {<<PrintEq(l, r)>> :
            l, r \in {<<T.str_a>>, <<T.str_ab>>, a_plus_b, <<T.str_b, T.plus, T.str_a>>,
                      <<T.str_empty, T.plus, T.str_a>>}}
        \cup {<<<<T.print>> \o a_plus_b \o <<T.semicolon>>>>,
              <<<<T.var, T.x, T.equal>> \o a_plus_b \o <<T.semicolon>>,
                PrintEq(<<T.x>>, <<T.str_ab>>)>>,
              <<<<T.var, T.ab, T.equal>> \o a_plus_b \o <<T.semicolon>>,
                PrintEq(<<T.ab>>, <<T.str_ab>>)>>,
              <<<<T.var, T.ab, T.equal, T.str_a, T.semicolon>>,
                PrintEq(<<T.ab>>, a_plus_b)>>}

\* programs of one comparison of two numbers, each 1, 2 or 0 / 0; programs
\* of one expression 1 o 2 o' 3 over the arithmetic operators; and  1 + 2;
OperatorPrograms ==
    LET operands == {<<T.one>>, <<T.two>>, <<T.zero, T.slash, T.zero>>}
        comparisons == {T.equal_equal, T.bang_equal, T.greater, T.greater_equal,
                        T.less, T.less_equal}
        arithmetic == {T.plus, T.minus, T.star, T.slash}
    IN  {<<T.print>> \o l \o <<o>> \o r \o <<T.semicolon>> :
            l \in operands, r \in operands, o \in comparisons}
        \cup {<<T.print, T.one, o1, T.two, o2, T.three, T.semicolon>> :
                 o1 \in arithmetic, o2 \in arithmetic}
        \cup {<<T.one, T.plus, T.two, T.semicolon>>}

SoupTokens ==
    {T.var, T.print, T.semicolon, T.equal, T.plus, T.minus, T.left_paren, T.right_paren,
     T.one, T.str_a, T.x, T.error}

\* the tokens of a sequence, all on one line
OnLine(toks, line) ==
    [i \in 1..Len(toks) |-> [kind |-> toks[i].kind, lexeme |-> toks[i].lexeme,
                             line |-> line]]

RECURSIVE ProgramTokens(_, _)
ProgramTokens(stmts, i) ==
    IF i > Len(stmts) THEN <<>>
    ELSE OnLine(stmts[i], i) \o ProgramTokens(stmts, i + 1)

Sources ==
    {ProgramTokens(stmts, 1) : stmts \in SeqsUpTo(Stmts, MaxStmts)}
    \cup {OnLine(toks, 1) : toks \in SeqsUpTo(SoupTokens, MaxSoup)}
    \cup {OnLine(toks, 1) : toks \in InvalidAssignments}
    \cup {ProgramTokens(Sums(MaxLiterals), 1)}
    \cup {ProgramTokens(stmts, 1) : stmts \in StringPrograms}
    \cup {OnLine(toks, 1) : toks \in OperatorPrograms}

\* lib.rs:21-27: Interner::new, Chunk::init, Scanner::new, Parser::new
InitScript ==
    /\ \E source \in Sources :
           LET p == ParserNew(ScannerNew(source), ChunkInit, InternerNew)
           IN  /\ scanner = p.scanner
               /\ current = p.current
               /\ previous = p.previous
               /\ had_error = p.had_error
               /\ panic_mode = p.panic_mode
               /\ chunk = p.current_chunk
               /\ interner = p.interner
               /\ stderr = p.stderr
    /\ ip = 0
    /\ stack = <<>>
    /\ globals = <<>>
    /\ out = <<>>
    /\ res = "idle"
    /\ err = NoError
    /\ trace = <<>>
    /\ pc = "compile"
    /\ comp_result = "none"
    /\ boundaries = {}
    /\ calls = <<>>

\* a step of Parser::compile takes the parser to p, or aborts the process
CompileStep(p, next_pc) ==
    /\ SetParser(p)
    /\ comp_result' = IF p.aborted THEN "panic" ELSE comp_result
    /\ pc' = IF p.aborted THEN "done" ELSE next_pc

\* Parser::compile, line 44: the first advance
Compile_Start ==
    /\ pc = "compile"
    /\ \E p \in {advance(TheParser)} : CompileStep(p, "declarations")
    /\ boundaries' = {0}
    /\ UNCHANGED <<vmVars, calls>>

\* Parser::compile, lines 45-47: match_current(Eof) is false, one declaration
Compile_Declaration ==
    /\ pc = "declarations"
    /\ ~match_current(TheParser, "Eof").matched
    /\ \E p \in {declaration(TheParser)} :
           /\ CompileStep(p, "declarations")
           /\ boundaries' = boundaries \cup {Len(p.current_chunk.code)}
    /\ UNCHANGED <<vmVars, calls>>

\* Parser::compile, lines 45 and 48-53: match_current(Eof) is true, compile
\* returns; lib.rs:31: the Vm is created only if comp_result.is_ok()
Compile_End ==
    /\ pc = "declarations"
    /\ match_current(TheParser, "Eof").matched
    /\ \E r \in {compile_finish(match_current(TheParser, "Eof").p)} :
           /\ SetParser(r.p)
           /\ comp_result' = r.result
           /\ pc' = IF r.result = "Ok" THEN "new" ELSE "done"
    /\ UNCHANGED <<vmVars, boundaries, calls>>

NextScript == Compile_Start \/ Compile_Declaration \/ Compile_End \/ NewVm \/ Step \/ Exit

SpecScript == InitScript /\ [][NextScript]_vars

\* run_script is one sequential call: while compile or run has a next step
\* to take, the thread takes it
SpecScriptFair == InitScript /\ [][NextScript]_vars /\ WF_vars(NextScript)

(***************************************************************************)
(* A client of the pub Chunk API (chunk.rs) that runs what it has built.   *)
(* It either makes at most MaxCalls calls of write, add_constant and       *)
(* write_constant with any of a few arguments (pc = "chunk"), or fills     *)
(* the pool with write_constant alone, the numbers 0, 1, 2, ... up to      *)
(* MaxConstants of them (pc = "fill").  The pools of these runs stay far   *)
(* below the 2^16 and 2^24 entries at which the long operand changes       *)
(* shape: Chunk_WriteLoad applies the form selection of write_constant to  *)
(* such an index directly.                                                 *)
(***************************************************************************)
ChunkArgs ==
    [byte |-> {OpNil, OpReturn},
     line |-> {1, 2},
     value |-> {Nil, Number(FromInt(1))},
     constant |-> {0, 255, 256, 65535, 66051, 16777215, 16777216}]

InitChunk ==
    /\ chunk = ChunkInit
    /\ interner = InternerNew
    /\ ip = 0
    /\ stack = <<>>
    /\ globals = <<>>
    /\ out = <<>>
    /\ res = "idle"
    /\ err = NoError
    /\ trace = <<>>
    /\ pc \in {"chunk", "fill"}
    /\ scanner = ScannerNew(<<>>)
    /\ current = NoToken
    /\ previous = NoToken
    /\ had_error = FALSE
    /\ panic_mode = FALSE
    /\ stderr = <<>>
    /\ comp_result = "none"
    /\ boundaries = {}
    /\ calls = <<>>

\* what a call of the Chunk API leaves alone
notChunk == <<interner, vmVars, parserVars, stderr, comp_result, boundaries>>

\* chunk.write(byte, line)
Chunk_Write ==
    /\ pc = "chunk"
    /\ Len(calls) < MaxCalls
    /\ \E byte \in ChunkArgs.byte, line \in ChunkArgs.line :
           /\ chunk' = write(chunk, byte, line)
           /\ calls' = Append(calls, [op |-> "write", byte |-> byte, line |-> line])
    /\ UNCHANGED <<pc, notChunk>>

\* chunk.add_constant(value)
Chunk_AddConstant ==
    /\ pc = "chunk"
    /\ Len(calls) < MaxCalls
    /\ \E value \in ChunkArgs.value :
           /\ chunk' = add_constant(chunk, value).chunk
           /\ calls' = Append(calls, [op |-> "add_constant", value |-> value])
    /\ UNCHANGED <<pc, notChunk>>

\* chunk.write_constant(value, line)
Chunk_WriteConstant ==
    /\ \E value \in ChunkArgs.value \cup {Number(FromInt(Len(calls)))}, line \in ChunkArgs.line :
           /\ \/ pc = "chunk" /\ Len(calls) < MaxCalls /\ value \in ChunkArgs.value
              \/ /\ pc = "fill"
                 /\ Len(calls) < MaxConstants
                 /\ value = Number(FromInt(Len(calls)))
                 /\ line = 1
           /\ \E r \in {write_constant(chunk, value, line)} :
                  /\ chunk' = r.chunk
                  /\ pc' = IF r.aborted THEN "aborted" ELSE pc
           /\ calls' = Append(calls, [op |-> "write_constant", value |-> value,
                                      line |-> line])
    /\ UNCHANGED notChunk

\* lines 37-47 of write_constant for the constant at a given index
Chunk_WriteLoad ==
    /\ pc = "chunk"
    /\ Len(calls) < MaxCalls
    /\ \E constant \in ChunkArgs.constant, line \in ChunkArgs.line :
           /\ \E r \in {write_load(chunk, constant, line)} :
                  /\ chunk' = r.chunk
                  /\ pc' = IF r.aborted THEN "aborted" ELSE "loaded"
           /\ calls' = Append(calls, [op |-> "write_load", constant |-> constant,
                                      line |-> line])
    /\ UNCHANGED notChunk

\* the client hands the chunk to a Vm
Chunk_Run ==
    /\ \/ pc = "chunk"
       \/ pc = "fill" /\ Len(calls) = MaxConstants
    /\ pc' = "new"
    /\ UNCHANGED <<chunk, calls, notChunk>>

NextChunk ==
    \/ Chunk_Write \/ Chunk_AddConstant \/ Chunk_WriteConstant \/ Chunk_WriteLoad
    \/ Chunk_Run \/ NewVm \/ Step \/ Exit

SpecChunk == InitChunk /\ [][NextChunk]_vars

(***************************************************************************)
(* A client of the pub Interner API (interner.rs): at most MaxCalls calls  *)
(* of intern on one instance, each with any of a few texts, the empty      *)
(* text and a text that is the concatenation of two others among them.     *)
(***************************************************************************)
InternTexts == {"", "a", "b", "ab", "x"}

InitInterner ==
    /\ chunk = ChunkInit
    /\ interner = InternerNew
    /\ ip = 0
    /\ stack = <<>>
    /\ globals = <<>>
    /\ out = <<>>
    /\ res = "idle"
    /\ err = NoError
    /\ trace = <<>>
    /\ pc = "interner"
    /\ scanner = ScannerNew(<<>>)
    /\ current = NoToken
    /\ previous = NoToken
    /\ had_error = FALSE
    /\ panic_mode = FALSE
    /\ stderr = <<>>
    /\ comp_result = "none"
    /\ boundaries = {}
    /\ calls = <<>>

\* interner.intern(name)
Interner_Intern ==
    /\ pc = "interner"
    /\ Len(calls) < MaxCalls
    /\ \E name \in InternTexts :
           \E r \in {intern(interner, name)} :
               /\ interner' = r.interner
               /\ calls' = Append(calls, [op |-> "intern", name |-> name, id |-> r.id])
    /\ UNCHANGED <<chunk, pc, vmVars, parserVars, stderr, comp_result, boundaries>>

NextInterner == Interner_Intern

SpecInterner == InitInterner /\ [][NextInterner]_vars

(***************************************************************************)
(* Properties of Vm::run, checked under SpecVm.                            *)
(***************************************************************************)
Running == pc = "run" /\ res = "running"
Top(st) == st[Len(st)]
Second(st) == st[Len(st) - 1]
Last(sq) == sq[Len(sq)]

BinaryNumberOps == {OpSubtract, OpMultiply, OpDivide, OpGreater, OpLess}

\* the instruction about to run fails its operand-type check or names an
\* unbound global
RaisesError ==
    /\ Running
    /\ \/ /\ NextOp = OpAdd
          /\ Len(stack) >= 2
          /\ ~(Top(stack).tag = "Number" /\ Second(stack).tag = "Number")
          /\ ~(Top(stack).tag = "Obj" /\ Second(stack).tag = "Obj")
       \/ /\ NextOp \in BinaryNumberOps
          /\ Len(stack) >= 2
          /\ ~(Top(stack).tag = "Number" /\ Second(stack).tag = "Number")
       \/ /\ NextOp = OpNegate
          /\ Len(stack) >= 1
          /\ Top(stack).tag # "Number"
       \/ /\ NextOp \in {OpGetGlobal, OpSetGlobal}
          /\ NextName.ok
          /\ NextName.name \notin DOMAIN globals

\* C1: the instruction that raises a runtime error makes run return that
\* error, printing nothing and leaving the globals alone, and once run has
\* returned an error no further instruction is executed: ip, stack, globals,
\* output and the history of executed instructions never change again.
C1_HaltsAtFirstError ==
    [][/\ RaisesError =>
            /\ res' = "Err"
            /\ err'.kind = "RuntimeError"
            /\ out' = out
            /\ globals' = globals
       /\ res = "Err" =>
            UNCHANGED <<chunk, interner, ip, stack, globals, out, res, err, trace>>]_vars

\* run returned an error with instructions left in the chunk
C1_Witness ==
    /\ pc = "done"
    /\ res = "Err"
    /\ ip < Len(chunk.code)
    /\ Len(trace) >= 2

\* C2: every runtime error returned by run carries the source line of the
\* failing instruction, lines[ip - 1].
C2_ErrorReportsLine ==
    res = "Err" => err.place = <<chunk.lines[(ip - 1) + 1]>>

\* C3: when Add, Subtract, Multiply, Divide, Greater, Less or Negate
\* returns a runtime error, the operand stack is the stack the instruction
\* started with.
C3_FailedCheckRestoresStack ==
    [][(/\ Running
        /\ NextOp \in BinaryNumberOps \cup {OpAdd, OpNegate}
        /\ res' = "Err") => stack' = stack]_vars

\* a binary instruction failed on two different operands
C3_Witness ==
    /\ res = "Err"
    /\ Len(trace) > 0
    /\ Last(trace).op \in BinaryNumberOps \cup {OpAdd}
    /\ Len(stack) >= 2
    /\ Top(stack) # Second(stack)
    /\ stack = Last(trace).before

\* the executed instructions before the k-th that bound name n
Defines(k, n) ==
    {j \in 1..(k - 1) : /\ trace[j].op = OpDefineGlobal
                         /\ trace[j].name = n
                         /\ trace[j].res = "running"}
Binds(k, n) ==
    {j \in 1..(k - 1) : /\ trace[j].op \in {OpDefineGlobal, OpSetGlobal}
                         /\ trace[j].name = n
                         /\ trace[j].res = "running"}
MaxOf(S) == CHOOSE m \in S : \A j \in S : j <= m

\* C4: every executed GetGlobal of a name n raises the undefined-variable
\* error iff no DefineGlobal of n was executed before it, and otherwise
\* pushes the value that the latest earlier DefineGlobal or successful
\* SetGlobal of n bound (the top of the stack when that instruction ran).
C4_GetGlobalReadsLatestBinding ==
    \A k \in 1..Len(trace) :
        (trace[k].op = OpGetGlobal /\ trace[k].res # "panic") =>
            LET n == trace[k].name
            IN  /\ trace[k].res = "Err" <=> Defines(k, n) = {}
                /\ trace[k].res = "Err" => err = undefined_variable(n)
                /\ Defines(k, n) # {} =>
                       trace[k].after =
                           Append(trace[k].before, Top(trace[MaxOf(Binds(k, n))].before))

\* GetGlobal read a value bound by a SetGlobal that replaced another one
C4_Witness ==
    \E k \in 1..Len(trace) :
        /\ trace[k].op = OpGetGlobal
        /\ trace[k].res = "running"
        /\ LET n == trace[k].name
               m == MaxOf(Binds(k, n))
           IN  /\ trace[m].op = OpSetGlobal
               /\ Top(trace[m].before) # Top(trace[MaxOf(Defines(k, n))].before)
               /\ Top(trace[k].after) = Top(trace[m].before)

\* C5: SetGlobal of a name that is not bound returns a runtime error and
\* changes neither the globals table nor the stack.
C5_FailedSetGlobalBindsNothing ==
    [][(/\ Running
        /\ NextOp = OpSetGlobal
        /\ NextName.ok
        /\ NextName.name \notin DOMAIN globals)
       => /\ res' = "Err"
          /\ err' = undefined_variable(NextName.name)
          /\ globals' = globals
          /\ stack' = stack]_vars

\* a SetGlobal failed with the value to assign on the stack and another
\* name bound
C5_Witness ==
    /\ res = "Err"
    /\ Len(trace) > 0
    /\ Last(trace).op = OpSetGlobal
    /\ Len(stack) >= 1
    /\ Last(trace).name \notin DOMAIN globals
    /\ DOMAIN globals # {}

\* C6: SetGlobal of a bound name keeps running, leaves the stack as it is,
\* binds the name to the value on top of the stack and changes no other
\* binding.
C6_SetGlobalOverwritesInPlace ==
    [][(/\ Running
        /\ NextOp = OpSetGlobal
        /\ NextName.ok
        /\ NextName.name \in DOMAIN globals
        /\ Len(stack) >= 1)
       => /\ res' = "running"
          /\ stack' = stack
          /\ DOMAIN globals' = DOMAIN globals
          /\ globals'[NextName.name] = Top(stack)
          /\ \A m \in DOMAIN globals \ {NextName.name} : globals'[m] = globals[m]]_vars

\* a SetGlobal replaced the value of x while y was bound too
C6_Witness ==
    /\ res = "running"
    /\ Len(trace) > 0
    /\ Last(trace).op = OpSetGlobal
    /\ Cardinality(DOMAIN globals) = 2
    /\ globals[Last(trace).name] = Top(stack)
    /\ \E j \in Binds(Len(trace), Last(trace).name) :
           Top(trace[j].before) # Top(stack)

\* C7: DefineGlobal never returns a runtime error; with a value on the
\* stack it pops exactly that value and binds the name to it, bound before
\* or not, and changes no other binding.
C7_DefineGlobalUnconditional ==
    [][/\ (Running /\ NextOp = OpDefineGlobal) => res' # "Err"
       /\ (/\ Running
           /\ NextOp = OpDefineGlobal
           /\ NextName.ok
           /\ Len(stack) >= 1)
          => /\ res' = "running"
             /\ stack' = SubSeq(stack, 1, Len(stack) - 1)
             /\ DOMAIN globals' = DOMAIN globals \cup {NextName.name}
             /\ globals'[NextName.name] = Top(stack)
             /\ \A m \in DOMAIN globals \ {NextName.name} : globals'[m] = globals[m]]_vars

\* a second DefineGlobal of a name replaced its first value, another name
\* being bound
C7_Witness ==
    /\ res = "running"
    /\ Len(trace) > 0
    /\ Last(trace).op = OpDefineGlobal
    /\ Cardinality(DOMAIN globals) = 2
    /\ \E j \in Defines(Len(trace), Last(trace).name) :
           Top(trace[j].before) # globals[Last(trace).name]
    /\ globals[Last(trace).name] = Top(Last(trace).before)

\* C8: Add with b on top of a: two Numbers leave a + b in their place; two
\* strings leave the string whose id is the interner's id of text(a)
\* followed by text(b); any other pair is a runtime error.  On success the
\* stack is one shorter and nothing below the operands has changed.
C8_AddDispatch ==
    [][(Running /\ NextOp = OpAdd /\ Len(stack) >= 2) =>
        LET b == Top(stack)
            a == Second(stack)
            rest == SubSeq(stack, 1, Len(stack) - 2)
        IN  IF a.tag = "Number" /\ b.tag = "Number"
            THEN res' = "running" /\ stack' = Append(rest, Number(FAdd(a.f, b.f)))
            ELSE IF a.tag = "Obj" /\ b.tag = "Obj"
            THEN LET text == lookup(interner, a.id) \o lookup(interner, b.id)
                 IN  /\ res' = "running"
                     /\ Len(stack') = Len(stack) - 1
                     /\ SubSeq(stack', 1, Len(stack') - 1) = rest
                     /\ Top(stack').tag = "Obj"
                     /\ lookup(interner', Top(stack').id) = text
                     /\ interner'.map[text] = Top(stack').id
                     /\ \A t \in DOMAIN interner.map : interner'.map[t] = interner.map[t]
            ELSE res' = "Err"]_vars

\* Add concatenated "x" and "y", in that order, into a new string
C8_Witness ==
    /\ res = "running"
    /\ Len(trace) > 0
    /\ Last(trace).op = OpAdd
    /\ Len(stack) = 1
    /\ Top(stack).tag = "Obj"
    /\ lookup(interner, Top(stack).id) = "xy"
    /\ Top(stack).id \notin {Top(Last(trace).before).id, Second(Last(trace).before).id}

(***************************************************************************)
(* Properties of run_script, checked under SpecScript.                     *)
(***************************************************************************)
\* C9: in a program that compiled, whenever the Vm stands at the start or
\* the end of a declaration of the source and no runtime error has occurred,
\* the stack is empty, and it is empty when run returns Ok.
C9_StatementsKeepStackDepth ==
    comp_result = "Ok" /\ pc \in {"run", "done"} =>
        /\ res = "running" /\ ip \in boundaries => Len(stack) = 0
        /\ res = "Ok" => Len(stack) = 0

\* the Vm stands at the end of a chained assignment x = x = ...; it has just
\* executed: two SetGlobal, then the Pop of the expression statement
C9_Witness ==
    /\ comp_result = "Ok"
    /\ Running
    /\ ip \in boundaries
    /\ Len(trace) >= 3
    /\ trace[Len(trace)].op = OpPop
    /\ trace[Len(trace) - 1].op = OpSetGlobal
    /\ trace[Len(trace) - 2].op = OpSetGlobal
    /\ Len(trace[Len(trace)].before) = 1

\* error_at has recorded an error: the flag, or a diagnostic on stderr
CompileErrorRecorded ==
    \/ had_error
    \/ \E i \in DOMAIN stderr : stderr[i].kind = "CompileError"

\* run_script is past its test of comp_result: a Vm is about to be created,
\* exists or has existed
VmCreated ==
    \/ pc \in {"new", "run"}
    \/ res # "idle"
    \/ trace # <<>>
    \/ out # <<>>

\* C10: had_error is never cleared; compile does not return Ok once an error
\* has been recorded; a Vm is created only after compile has returned Ok for
\* a source that recorded no error; and once the Vm exists the parser and
\* the code of the chunk no longer change.
C10_NoExecutionAfterCompileError ==
    /\ [][had_error => had_error']_vars
    /\ [](CompileErrorRecorded => comp_result # "Ok")
    /\ [](VmCreated => comp_result = "Ok" /\ ~CompileErrorRecorded)
    /\ [][VmCreated => UNCHANGED <<parserVars, chunk, comp_result>>]_vars

\* compile has returned an error for a source with an Error token and a
\* syntax error, code has been emitted into the chunk, and no Vm was created
C10_Witness ==
    /\ pc = "done"
    /\ comp_result = "Err"
    /\ had_error
    /\ chunk.code # <<>>
    /\ ~VmCreated
    /\ \E i \in DOMAIN stderr : stderr[i].kind = "CompileError" /\ stderr[i].at = ""
    /\ \E i \in DOMAIN stderr :
           stderr[i].kind = "CompileError" /\ stderr[i].message = "Expected expression."

\* C11: the compilation of one declaration reports at most one diagnostic:
\* after the first error of a statement nothing more is reported until the
\* parser has synchronized at the next statement boundary.
C11_OneDiagnosticPerStatement ==
    [][pc = "declarations" => Len(stderr') <= Len(stderr) + 1]_vars

\* the source, and the positions of its '=' tokens that follow a literal
Source == scanner.tokens
EqualAfterLiteral ==
    {i \in 2..Len(Source) : /\ Source[i].kind = "Equal"
                            /\ Source[i - 1].kind \in {"Number", "String"}}
InvalidTargetDiagnostics ==
    {i \in DOMAIN stderr : /\ stderr[i].kind = "CompileError"
                           /\ stderr[i].message = "Invalid assignment target."
                           /\ stderr[i].at = " at '=' "}
SetGlobals ==
    {o \in instruction_offsets(chunk.code, 0) : chunk.code[o + 1] = OpSetGlobal}

\* C12: once compile has returned, (a) every '=' of the source that follows
\* a number or string literal has its own 'Invalid assignment target'
\* diagnostic and compile has returned an error; (b) for a statement that
\* assigns to 1 + x, -x, (x), 1 or "a", compile has returned an error with
\* that diagnostic, and the code holds no SetGlobal for that '=': none at
\* all, or the one of the assignment x = ... the statement starts with.
C12_InvalidAssignmentTarget ==
    comp_result \in {"Ok", "Err"} =>
        /\ Cardinality(InvalidTargetDiagnostics) >= Cardinality(EqualAfterLiteral)
        /\ EqualAfterLiteral # {} => comp_result = "Err"
        /\ Source \in {OnLine(toks, 1) : toks \in InvalidAssignments} =>
               /\ comp_result = "Err"
               /\ Cardinality(InvalidTargetDiagnostics) = 1
               /\ Cardinality(SetGlobals) =
                      IF Source[1].kind = "Identifier" /\ Source[2].kind = "Equal"
                      THEN 1 ELSE 0

\* compile has failed on x = (x) = 1; with the diagnostic, having emitted
\* the SetGlobal of the first '=' only
C12_Witness ==
    /\ pc = "done"
    /\ comp_result = "Err"
    /\ Len(Source) = 8
    /\ Source[1].kind = "Identifier"
    /\ Source[3].kind = "LeftParen"
    /\ Source[6].kind = "Equal"
    /\ Cardinality(InvalidTargetDiagnostics) = 1
    /\ Cardinality(SetGlobals) = 1

\* C16: compile does not abort, and when it has returned Ok with more than
\* 256 constants in the pool, each constant is loaded by the form that
\* holds its index: the code has a ConstantLong.
C16_CompilerSelectsLongForm ==
    /\ comp_result # "panic"
    /\ (comp_result = "Ok" /\ Len(chunk.constants) > 256) =>
           \E o \in instruction_offsets(chunk.code, 0) : chunk.code[o + 1] = OpConstantLong

(***************************************************************************)
(* Properties of the Chunk API, checked under SpecChunk.                   *)
(***************************************************************************)
\* the call a step makes, the bytes it appends to the code and the lines it
\* appends to the line table
Called == calls' # calls
TheCall == calls'[Len(calls')]
Emitted == SubSeq(chunk'.code, Len(chunk.code) + 1, Len(chunk'.code))
EmittedLines == SubSeq(chunk'.lines, Len(chunk.lines) + 1, Len(chunk'.lines))

\* the load of the constant at index i, for i below 2^24
ExpectedLoad(i) ==
    IF i <= 255 THEN <<OpConstant, i>>
    ELSE <<OpConstantLong, i % 256, (i \div 256) % 256, i \div 65536>>

\* every call made so far is a write_constant
OnlyWriteConstant ==
    /\ calls # <<>>
    /\ \A i \in DOMAIN calls : calls[i].op = "write_constant"

\* C13: Constant pushes the constant at the index in its operand byte and
\* ConstantLong the constant at the index in its three operand bytes, lowest
\* byte first, each leaving ip after its operand; and when run has returned
\* on a chunk built by write_constant alone, it has returned Ok and the stack
\* holds the constants of the pool in their order.
C13_ConstantLoadsDecode ==
    /\ [][(Running /\ NextOp = OpConstant /\ ip + 1 < Len(chunk.code)
            /\ chunk.code[ip + 2] < Len(chunk.constants))
          => /\ ip' = ip + 2
             /\ stack' = Append(stack, chunk.constants[chunk.code[ip + 2] + 1])]_vars
    /\ [][(Running /\ NextOp = OpConstantLong /\ ip + 3 < Len(chunk.code))
          => LET index == chunk.code[ip + 2] + 256 * chunk.code[ip + 3]
                          + 65536 * chunk.code[ip + 4]
             IN  index < Len(chunk.constants)
                 => /\ ip' = ip + 4
                    /\ stack' = Append(stack, chunk.constants[index + 1])]_vars
    /\ [](pc = "done" /\ OnlyWriteConstant => res = "Ok" /\ stack = chunk.constants)

\* C14: write_constant appends its value to the pool and appends to the code
\* the load of the new index and nothing else; the load of an index is
\* Constant and the index when the index is at most 255, ConstantLong and the
\* three bytes of the index, lowest first, when it is below 2^24, and from
\* 2^24 on nothing is written and the process aborts.
C14_WriteConstantEncodesIndex ==
    [][Called =>
        CASE TheCall.op = "write_constant" ->
                 /\ chunk'.constants = Append(chunk.constants, TheCall.value)
                 /\ Emitted = ExpectedLoad(Len(chunk.constants))
                 /\ SubSeq(chunk'.code, 1, Len(chunk.code)) = chunk.code
                 /\ pc' # "aborted"
          [] TheCall.op = "write_load" ->
                 /\ chunk'.constants = chunk.constants
                 /\ IF TheCall.constant < 16777216
                    THEN /\ Emitted = ExpectedLoad(TheCall.constant)
                         /\ SubSeq(chunk'.code, 1, Len(chunk.code)) = chunk.code
                         /\ pc' = "loaded"
                    ELSE /\ chunk'.code = chunk.code
                         /\ pc' = "aborted"
          [] OTHER -> TRUE]_vars

\* the load of index 66051 = 1 * 2^16 + 2 * 2^8 + 3 has been written
C14_Witness ==
    /\ pc = "loaded"
    /\ calls[Len(calls)].constant = 66051
    /\ Len(chunk.code) >= 4
    /\ SubSeq(chunk.code, Len(chunk.code) - 3, Len(chunk.code)) = <<OpConstantLong, 3, 2, 1>>

\* C15 as stated: the k-th constant is loaded by the short form for
\* k <= 255 and by the long form for k >= 256.
C15_LongFormFrom256th ==
    [][(Called /\ TheCall.op = "write_constant") =>
        LET k == Len(chunk'.constants)
        IN  IF k <= 255 THEN Len(Emitted) = 2 /\ Emitted[1] = OpConstant
            ELSE Len(Emitted) = 4 /\ Emitted[1] = OpConstantLong]_vars

\* C15, amended: the k-th constant is loaded by the short form for k <= 256
\* (indices 0 .. 255) and by the long form for k >= 257.
C15_LongFormFrom257th ==
    [][(Called /\ TheCall.op = "write_constant") =>
        LET k == Len(chunk'.constants)
        IN  IF k <= 256 THEN Len(Emitted) = 2 /\ Emitted[1] = OpConstant
            ELSE Len(Emitted) = 4 /\ Emitted[1] = OpConstantLong]_vars

\* the 256th constant has been loaded by the short form, the 257th by the
\* long form
C15_Witness ==
    /\ pc = "fill"
    /\ Len(chunk.constants) = 257
    /\ OnlyWriteConstant
    /\ Len(chunk.code) = 2 * 256 + 4
    /\ SubSeq(chunk.code, 2 * 255 + 1, Len(chunk.code))
           = <<OpConstant, 255, OpConstantLong, 0, 1, 0>>

\* C17: the line table has one entry per code byte, and a call appends to
\* it the line it was given once for each byte it appends to the code.
C17_LineTableAligned ==
    /\ [](Len(chunk.lines) = Len(chunk.code))
    /\ [][Called =>
            EmittedLines = [i \in 1..Len(Emitted) |->
                               IF TheCall.op = "add_constant" THEN 0 ELSE TheCall.line]]_vars

(***************************************************************************)
(* Properties of the Interner, checked under SpecInterner and SpecScript.  *)
(***************************************************************************)
\* C18: on one Interner, after any sequence of intern calls, two calls
\* return the same id if and only if their texts are equal; a call with an
\* already-interned text returns the id of the earlier call and stores
\* nothing, and a call with a new text stores exactly that text.
C18_InternIdsIdentifyTexts ==
    /\ [](\A i, j \in 1..Len(calls) :
             (calls[i].id = calls[j].id) <=> (calls[i].name = calls[j].name))
    /\ [][calls' # calls =>
             LET i == Len(calls')
             IN  IF \E j \in 1..Len(calls) : calls[j].name = calls'[i].name
                 THEN interner' = interner
                 ELSE /\ interner'.vec = Append(interner.vec, calls'[i].name)
                      /\ DOMAIN interner'.map = DOMAIN interner.map \cup {calls'[i].name}]_vars

\* three calls: a text, another text, the first text again
C18_Witness ==
    /\ pc = "interner"
    /\ Len(calls) = 3
    /\ calls[1].name = "ab"
    /\ calls[2].name = "a"
    /\ calls[3].name = "ab"
    /\ calls[1].id = calls[3].id
    /\ calls[2].id # calls[1].id
    /\ Len(interner.vec) = 2

\* C19: interner ids are stable across compilation and execution: lookup of
\* the id of every interned text yields that text, and keeps yielding it
\* after later intern calls by the compiler and by the Add instruction; no
\* entry is removed or reassigned, and a new text receives the next
\* sequential id, the number of distinct texts stored before it.
C19_InternerIdsStable ==
    /\ [](/\ \A t \in DOMAIN interner.map :
                /\ lookup_ok(interner, get_existing(interner, t))
                /\ lookup(interner, get_existing(interner, t)) = t
          /\ Len(interner.vec) = Cardinality(DOMAIN interner.map))
    /\ [][/\ \A t \in DOMAIN interner.map :
                /\ exists(interner', t)
                /\ get_existing(interner', t) = get_existing(interner, t)
                /\ lookup(interner', get_existing(interner, t)) = t
          /\ \A id \in Len(interner.vec)..(Len(interner'.vec) - 1) :
                /\ ~exists(interner, lookup(interner', id))
                /\ get_existing(interner', lookup(interner', id)) = id]_vars

\* print "a" + "b"; has run its Add: the compiler interned "a" and "b", the
\* VM "ab", and the ids of the first two are the ones in the constant pool
C19_Witness ==
    /\ pc = "run"
    /\ trace # <<>>
    /\ Last(trace).op = OpAdd
    /\ interner.vec = <<"a", "b", "ab">>
    /\ chunk.constants = <<from_str_index(0), from_str_index(1)>>
    /\ stack = <<from_str_index(2)>>

\* the string values the program holds
StringValues ==
    {v \in {chunk.constants[i] : i \in 1..Len(chunk.constants)}
            \cup {stack[i] : i \in 1..Len(stack)}
            \cup {globals[n] : n \in DOMAIN globals} : IsString(v)}

Text(v) == lookup(interner, v.id)

\* C20: at every point of compilation and execution two string values are
\* equal values iff their texts are equal, and every Equal instruction
\* run on two strings has pushed true iff their texts are equal, whether
\* the strings come from literals, identifiers or concatenation.
C20_StringEqualityIsTextEquality ==
    /\ \A u, w \in StringValues :
           /\ lookup_ok(interner, u.id)
           /\ ValueEq(u, w) <=> (Text(u) = Text(w))
    /\ \A i \in 1..Len(trace) :
           (/\ trace[i].op = OpEqual
            /\ Len(trace[i].before) >= 2
            /\ IsString(Top(trace[i].before))
            /\ IsString(Second(trace[i].before)))
           => Top(trace[i].after) =
                  Bool(Text(Second(trace[i].before)) = Text(Top(trace[i].before)))

\* "ab" == "a" + "b" has pushed true: the Add yields the text of the literal
C20_Witness ==
    /\ Len(trace) >= 2
    /\ trace[Len(trace) - 1].op = OpAdd
    /\ Last(trace).op = OpEqual
    /\ IsString(Second(Last(trace).before))
    /\ Text(Top(Last(trace).before)) = "ab"
    /\ Top(stack) = Bool(TRUE)
    /\ interner.vec = <<"ab", "a", "b">>

(***************************************************************************)
(* Properties of the instruction set, checked under SpecVm on the chunks   *)
(* of one byte and on the chunks that apply one instruction to two loaded  *)
(* constants.                                                              *)
(***************************************************************************)
UnexpectedOpcode == [kind |-> "Panic", message |-> "unexpected opcode!"]

\* C27: Op::from_u8 yields an opcode for every byte 0 to 21 and aborts on
\* every byte above 21, and decoding round-trips with encoding: the opcode
\* decoded from a byte encodes to that byte, and decoding its encoding
\* yields the opcode again.
C27_OpcodeDecoding ==
    trace # <<>> =>
        LET byte == Last(trace).op
        IN  IF byte \in 0..21
            THEN /\ try_from(byte).ok
                 /\ u8(try_from(byte).op) = byte
                 /\ try_from(u8(try_from(byte).op)) = try_from(byte)
                 /\ err # UnexpectedOpcode
            ELSE /\ res = "panic"
                 /\ err = UnexpectedOpcode
                 /\ stack = Last(trace).before

\* the byte after Print, the last opcode, has aborted the VM
C27_Witness ==
    /\ chunk.code = <<22>>
    /\ trace # <<>>
    /\ res = "panic"
    /\ err = UnexpectedOpcode

\* the instruction about to run pops or peeks more values than the stack
\* holds
StackUnderflow ==
    \/ NextOp \in {OpNegate, OpNot, OpPrint, OpPop} /\ Len(stack) < 1
    \/ /\ NextOp \in BinaryNumberOps \cup {OpAdd, OpEqual}
       /\ Len(stack) < 2
    \/ NextOp = OpDefineGlobal /\ NextName.ok /\ Len(stack) < 1
    \/ /\ NextOp = OpSetGlobal
       /\ NextName.ok
       /\ NextName.name \in DOMAIN globals
       /\ Len(stack) < 1

\* the instruction about to run has an operand that indexes the constant
\* pool past its end
ConstantOutOfRange ==
    /\ NextOp \in {OpConstant, OpConstantLong, OpGetGlobal, OpDefineGlobal, OpSetGlobal}
    /\ ip + 1 < Len(chunk.code)
    /\ ~(chunk.code[ip + 2] < Len(chunk.constants))

\* C28: an instruction that pops or peeks an empty operand stack, an
\* opcode byte out of range and a constant index past the end of the pool
\* abort the VM; none of them returns a runtime error.
C28_InternalFaultsAbort ==
    [][(Running /\ (StackUnderflow \/ NextOp > OpPrint \/ ConstantOutOfRange))
          => res' = "panic" /\ err'.kind = "Panic"]_vars

\* Constant 0 has run on an empty constant pool
C28_Witness ==
    /\ chunk.code = <<OpConstant, 0>>
    /\ chunk.constants = <<>>
    /\ trace # <<>>
    /\ res = "panic"

\* the last executed instruction, its operands (b on top, a below it) and
\* the stack below its operands
LastEvent == Last(trace)
OperandB == Top(LastEvent.before)
OperandA == Second(LastEvent.before)
Below(n) == SubSeq(LastEvent.before, 1, Len(LastEvent.before) - n)

\* a == b of two f64: a NaN equals nothing and the two zeros are equal
NumbersEqual(x, y) ==
    /\ ~IsNaN(x)
    /\ ~IsNaN(y)
    /\ x.s * x.n * y.d = y.s * y.n * x.d
    /\ IsInf(x) = IsInf(y)

\* C22: Equal never raises a runtime error: it pops both operands and
\* pushes a Bool, true exactly when the values have the same tag and Nil
\* meets Nil, the Bools are equal, the Numbers are equal as f64 or the
\* strings have the same id; false for values of different types.
C22_EqualIsTotal ==
    (trace # <<>> /\ LastEvent.op = OpEqual /\ Len(LastEvent.before) >= 2) =>
        /\ res # "Err"
        /\ err = NoError
        /\ stack = Append(Below(2),
               Bool(/\ OperandA.tag = OperandB.tag
                    /\ \/ OperandA.tag = "Nil"
                       \/ OperandA.tag = "Bool" /\ OperandA.b = OperandB.b
                       \/ OperandA.tag = "Number" /\ NumbersEqual(OperandA.f, OperandB.f)
                       \/ OperandA.tag = "Obj" /\ OperandA.id = OperandB.id))

\* a number and a string have compared unequal, without an error
C22_Witness ==
    /\ trace # <<>>
    /\ LastEvent.op = OpEqual
    /\ LastEvent.before = <<Number(FromInt(1)), from_str_index(0)>>
    /\ stack = <<Bool(FALSE)>>
    /\ res = "running"

\* C23: Not pops one value of any type and pushes true exactly when the
\* value is Nil or false, and false for every other value, the number 0
\* and the empty string among them; it never raises a runtime error.
C23_NotIsFalsey ==
    (trace # <<>> /\ LastEvent.op = OpNot /\ Len(LastEvent.before) >= 1) =>
        /\ res # "Err"
        /\ err = NoError
        /\ stack = Append(Below(1), Bool(OperandB \in {Nil, Bool(FALSE)}))

\* Not of the number 0 has pushed false
C23_Witness ==
    /\ trace # <<>>
    /\ LastEvent.op = OpNot
    /\ Len(LastEvent.before) = 2
    /\ OperandB = Number(Zero(1))
    /\ Top(stack) = Bool(FALSE)

\* C24: Greater and Less pop b then a and, when both are Numbers, push
\* Bool(a > b) respectively Bool(a < b), a being the operand pushed
\* first; when either is not a Number the instruction is a runtime error.
C24_GreaterLess ==
    (trace # <<>> /\ LastEvent.op \in {OpGreater, OpLess} /\ Len(LastEvent.before) >= 2) =>
        IF IsNumber(OperandA) /\ IsNumber(OperandB)
        THEN /\ res # "Err"
             /\ stack = Append(Below(2),
                    Bool(IF LastEvent.op = OpGreater
                         THEN FLess(OperandB.f, OperandA.f)
                         ELSE FLess(OperandA.f, OperandB.f)))
        ELSE /\ res = "Err"
             /\ err.kind = "RuntimeError"

\* 2 > 1 has pushed true: a is the operand below the top
C24_Witness ==
    /\ trace # <<>>
    /\ LastEvent.op = OpGreater
    /\ LastEvent.before = <<Number(FromInt(2)), Number(FromInt(1))>>
    /\ stack = <<Bool(TRUE)>>

(***************************************************************************)
(* Properties of the operators, compiled from source and run, checked      *)
(* under SpecScript.                                                       *)
(***************************************************************************)
\* C21: when Add concatenates two strings, the pushed string has the
\* interner's id for the concatenated text: the existing id when the text
\* was interned before, and otherwise a fresh id, which differs from the
\* ids of both operands and of every text interned before.
C21_ConcatenationId ==
    [][(/\ Running
        /\ NextOp = OpAdd
        /\ Len(stack) >= 2
        /\ IsString(Top(stack))
        /\ IsString(Second(stack)))
       => LET text == Text(Second(stack)) \o Text(Top(stack))
              id == Top(stack').id
          IN  /\ IsString(Top(stack'))
              /\ lookup(interner', id) = text
              /\ IF exists(interner, text)
                 THEN id = get_existing(interner, text) /\ interner' = interner
                 ELSE /\ id = Len(interner.vec)
                      /\ id \notin {Top(stack).id, Second(stack).id}
                      /\ \A t \in DOMAIN interner.map : get_existing(interner, t) # id]_vars

\* "" + "a" has pushed the id of its right operand, and nothing was stored
C21_Witness ==
    /\ trace # <<>>
    /\ Last(trace).op = OpAdd
    /\ Len(Last(trace).before) = 2
    /\ IsString(Second(Last(trace).before))
    /\ Text(Second(Last(trace).before)) = ""
    /\ Top(stack) = Top(Last(trace).before)
    /\ interner.vec = <<"", "a">>

\* the number a source operand 1, 2 or 0 / 0 evaluates to, and the code
\* the operand compiles to when the pool holds k constants before it
OperandNumber(toks) ==
    IF Len(toks) = 1 THEN FromInt(IF toks[1].lexeme = "1" THEN 1 ELSE 2) ELSE NaN
OperandCode(toks, k) ==
    IF Len(toks) = 1 THEN <<OpConstant, k>>
    ELSE <<OpConstant, k, OpConstant, k + 1, OpDivide>>

\* the instructions of a comparison operator, and the comparison it writes
ComparisonCode(kind) ==
    CASE kind = "EqualEqual" -> <<OpEqual>>
      [] kind = "BangEqual" -> <<OpEqual, OpNot>>
      [] kind = "Greater" -> <<OpGreater>>
      [] kind = "GreaterEqual" -> <<OpLess, OpNot>>
      [] kind = "Less" -> <<OpLess>>
      [] kind = "LessEqual" -> <<OpGreater, OpNot>>
Compares(kind, x, y) ==
    CASE kind = "EqualEqual" -> NumbersEqual(x, y)
      [] kind = "BangEqual" -> ~NumbersEqual(x, y)
      [] kind = "Greater" -> FLess(y, x)
      [] kind = "GreaterEqual" -> FLess(y, x) \/ NumbersEqual(x, y)
      [] kind = "Less" -> FLess(x, y)
      [] kind = "LessEqual" -> FLess(x, y) \/ NumbersEqual(x, y)

ComparisonKinds ==
    {"EqualEqual", "BangEqual", "Greater", "GreaterEqual", "Less", "LessEqual"}

\* the source is  print l o r;  with o a comparison at token k
IsComparison(k) ==
    /\ k \in {3, 5}
    /\ Len(Source) \in {k + 2, k + 4}
    /\ Source[1].kind = "Print"
    /\ Source[k].kind \in ComparisonKinds
    /\ \A i \in (2..(Len(Source) - 1)) \ {k} : Source[i].kind \in {"Number", "Slash"}
    /\ Source[Len(Source)].kind = "Semicolon"

LeftOperand(k) == SubSeq(Source, 2, k - 1)
RightOperand(k) == SubSeq(Source, k + 1, Len(Source) - 1)

\* print l o r;  compiles to the code of l, the code of r and the
\* instructions of o
DesugaredCode(k) ==
    (pc \in {"new", "run", "done"} /\ comp_result = "Ok") =>
        chunk.code = OperandCode(LeftOperand(k), 0)
                         \o OperandCode(RightOperand(k), (Len(LeftOperand(k)) + 1) \div 2)
                         \o ComparisonCode(Source[k].kind) \o <<OpPrint, OpReturn>>

\* print l o r;  has printed the boolean that the written comparison has
PrintsComparison(k) ==
    pc = "done" =>
        /\ res = "Ok"
        /\ out = <<[display |-> Bool(Compares(Source[k].kind,
                                              OperandNumber(LeftOperand(k)),
                                              OperandNumber(RightOperand(k))))]>>

\* C25 as stated: a != b emits a, b, Equal, Not; a >= b emits Less, Not;
\* a <= b emits Greater, Not; ==, > and < emit Equal, Greater, Less; and
\* for numeric operands the executed result is the boolean value of the
\* written comparison.
C25_DesugaredComparisons ==
    \A k \in {3, 5} : IsComparison(k) => DesugaredCode(k) /\ PrintsComparison(k)

\* C25 amended: the same, the executed result being that of the written
\* comparison for numeric operands neither of which is NaN.
C25_DesugaredComparisonsOrdered ==
    \A k \in {3, 5} :
        IsComparison(k) =>
            /\ DesugaredCode(k)
            /\ (~IsNaN(OperandNumber(LeftOperand(k))) /\ ~IsNaN(OperandNumber(RightOperand(k))))
                   => PrintsComparison(k)

\* print 2 >= 2;  has printed true through Less, Not
C25_Witness ==
    /\ pc = "done"
    /\ Len(Source) = 5
    /\ IsComparison(3)
    /\ Source[2].lexeme = "2"
    /\ Source[3].kind = "GreaterEqual"
    /\ Source[4].lexeme = "2"
    /\ chunk.code = <<OpConstant, 0, OpConstant, 1, OpLess, OpNot, OpPrint, OpReturn>>
    /\ out = <<[display |-> Bool(TRUE)]>>

\* the source is  print 1 o 2 o' 3;  over the arithmetic operators
ArithmeticKinds == {"Plus", "Minus", "Star", "Slash"}
IsArithmetic ==
    /\ Len(Source) = 7
    /\ Source[1].kind = "Print"
    /\ <<Source[2].lexeme, Source[4].lexeme, Source[6].lexeme>> = <<"1", "2", "3">>
    /\ Source[3].kind \in ArithmeticKinds
    /\ Source[5].kind \in ArithmeticKinds

\* the instruction and the f64 operation of an arithmetic operator, and
\* whether it binds tighter than another
ArithmeticOp(kind) ==
    CASE kind = "Plus" -> OpAdd [] kind = "Minus" -> OpSubtract
      [] kind = "Star" -> OpMultiply [] kind = "Slash" -> OpDivide
Arithmetic(kind, x, y) ==
    CASE kind = "Plus" -> FAdd(x, y) [] kind = "Minus" -> FSub(x, y)
      [] kind = "Star" -> FMul(x, y) [] kind = "Slash" -> FDiv(x, y)
BindsTighter(kind, other) == kind \in {"Star", "Slash"} /\ other \in {"Plus", "Minus"}

\* C26: an expression of binary operators compiles to the left operand's
\* code, the right operand's code, then the operator's instruction, with
\* higher precedence binding tighter and equal precedence associating to
\* the left:  1 + 2;  is Constant 0, Constant 1, Add, Pop, Return, and
\* 1 o 2 o' 3  is  1 2 3 o' o  and evaluates as 1 o (2 o' 3) when o' binds
\* tighter than o, and otherwise is  1 2 o 3 o'  and evaluates as
\* (1 o 2) o' 3.
C26_BinaryOperatorsCompile ==
    /\ (/\ pc \in {"new", "run", "done"}
        /\ Len(Source) = 4
        /\ <<Source[1].lexeme, Source[2].kind, Source[3].lexeme, Source[4].kind>>
               = <<"1", "Plus", "2", "Semicolon">>)
       => /\ chunk.code = <<OpConstant, 0, OpConstant, 1, OpAdd, OpPop, OpReturn>>
          /\ chunk.constants = <<Number(FromInt(1)), Number(FromInt(2))>>
    /\ (IsArithmetic /\ pc \in {"new", "run", "done"}) =>
          LET o1 == Source[3].kind
              o2 == Source[5].kind
              one == FromInt(1)
              two == FromInt(2)
              three == FromInt(3)
          IN  /\ comp_result = "Ok"
              /\ chunk.constants = <<Number(one), Number(two), Number(three)>>
              /\ chunk.code =
                     IF BindsTighter(o2, o1)
                     THEN <<OpConstant, 0, OpConstant, 1, OpConstant, 2,
                            ArithmeticOp(o2), ArithmeticOp(o1), OpPrint, OpReturn>>
                     ELSE <<OpConstant, 0, OpConstant, 1, ArithmeticOp(o1),
                            OpConstant, 2, ArithmeticOp(o2), OpPrint, OpReturn>>
              /\ pc = "done" =>
                     out = <<[display |-> Number(
                                IF BindsTighter(o2, o1)
                                THEN Arithmetic(o1, one, Arithmetic(o2, two, three))
                                ELSE Arithmetic(o2, Arithmetic(o1, one, two), three))]>>

\* print 1 - 2 - 3;  has printed -4
C26_Witness ==
    /\ pc = "done"
    /\ IsArithmetic
    /\ Source[3].kind = "Minus"
    /\ Source[5].kind = "Minus"
    /\ out = <<[display |-> Number(FromInt(-4))]>>

(***************************************************************************)
(* Properties of error recovery, checked under SpecScript.                 *)
(***************************************************************************)
\* C29: whenever the parser records a syntax error it sets both had_error
\* and panic_mode, and while panic_mode is set a further error prints no
\* diagnostic.  Seen at the first advance of compile, which no synchronize
\* follows: if it reports an error it leaves both flags set, and it
\* reports one diagnostic at most, however many Error tokens it skips.
C29_ErrorSetsPanicMode ==
    [][pc = "compile" =>
          /\ Len(stderr') > Len(stderr) => had_error' /\ panic_mode'
          /\ Len(stderr') <= Len(stderr) + 1]_vars

SynchronizeKinds == {"Class", "Fun", "Var", "For", "If", "While", "Print", "Return"}

TokensConsumed ==
    IF current.kind = "Eof" THEN Len(Source) ELSE scanner.pos - 1

Compiling == pc \in {"compile", "declarations"}

\* C31: Parser::compile terminates on every finite token stream that ends
\* in Eof, with or without errors in the source: every iteration of the
\* declaration loop consumes at least one token, the tokens consumed never
\* exceed those of the source, and compile eventually returns.
C31_CompileTerminates ==
    /\ [](pc = "declarations" => TokensConsumed \in 0..Len(Source))
    /\ [][(pc = "declarations" /\ pc' = "declarations")
             => TokensConsumed' > TokensConsumed]_vars
    /\ <>(~Compiling)

\* compile has returned an error after a declaration loop that emitted the
\* code of one declaration and reported the error of another
C31_Witness ==
    /\ ~Compiling
    /\ comp_result = "Err"
    /\ Len(Source) = 3
    /\ Cardinality(boundaries) >= 2
    /\ stderr # <<>>
    /\ TokensConsumed = Len(Source)

\* the offsets of the Return instructions of the chunk
ReturnOffsets ==
    {o \in instruction_offsets(chunk.code, 0) : chunk.code[o + 1] = OpReturn}

\* C32: Vm::run terminates on a chunk produced by a successful compile: the
\* chunk holds Return exactly once, as its last byte; every executed
\* instruction moves ip forward; and run ends either with its first runtime
\* error or by executing that Return at the end of the code, with Ok, after
\* every instruction of every statement has executed.
C32_RunTerminates ==
    /\ [](comp_result = "Ok" =>
            /\ chunk.code # <<>>
            /\ ReturnOffsets = {Len(chunk.code) - 1})
    /\ [][(pc = "run" /\ trace' # trace) => ip' > ip]_vars
    /\ [](comp_result = "Ok" /\ pc = "done" =>
            /\ trace # <<>>
            /\ \A i \in 1..(Len(trace) - 1) : trace[i].res = "running"
            /\ \/ res = "Err" /\ LastEvent.res = "Err" /\ LastEvent.op # OpReturn
               \/ /\ res = "Ok"
                  /\ LastEvent.op = OpReturn
                  /\ ip = Len(chunk.code)
                  /\ Len(trace) = Cardinality(instruction_offsets(chunk.code, 0)))
    /\ (pc = "run" ~> pc = "done")

\* run has returned Ok from the Return that ends a program of two
\* statements, the second of which printed
C32_Witness ==
    /\ comp_result = "Ok"
    /\ pc = "done"
    /\ res = "Ok"
    /\ LastEvent.op = OpReturn
    /\ Cardinality(boundaries) = 3
    /\ out # <<>>

(***************************************************************************)
(* Compiled code and the abort paths of the Vm, checked under SpecScript.  *)
(***************************************************************************)
\* the instruction about to run names a constant that is not a string
NameNotString ==
    /\ NextOp \in {OpGetGlobal, OpDefineGlobal, OpSetGlobal}
    /\ ~NextName.ok

\* the instruction about to run has an operand that lies past the end of
\* the code
OperandPastEnd ==
    /\ NextOp # -1
    /\ next_offset(NextOp, ip) > Len(chunk.code)

\* C33: no abort path of the Vm is reachable from compiled code: while the
\* chunk of a successful compile runs, no instruction about to run pops or
\* peeks more than the stack holds, reads a byte past the end of the code,
\* indexes the constant pool past its end, is an invalid opcode or names a
\* constant that is not a string, and run never aborts.
C33_NoAbortFromCompiledCode ==
    comp_result = "Ok" /\ pc \in {"run", "done"} =>
        /\ res # "panic"
        /\ err.kind # "Panic"
        /\ Running =>
              /\ ~StackUnderflow
              /\ ~OperandPastEnd
              /\ ~ConstantOutOfRange
              /\ NextOp \in 0..OpPrint
              /\ ~NameNotString

\* a compiled program has defined, assigned and read a global and run to
\* its Return
C33_Witness ==
    /\ comp_result = "Ok"
    /\ pc = "done"
    /\ res = "Ok"
    /\ \E i, j \in DOMAIN trace :
          /\ trace[i].op = OpDefineGlobal
          /\ trace[j].op = OpGetGlobal
          /\ i < j

(***************************************************************************)
(* Declarations without an initializer, checked under SpecScript.          *)
(***************************************************************************)
\* the declaration about to be compiled is `var name ;`
DeclaresWithoutInitializer ==
    /\ pc = "declarations"
    /\ current.kind = "Var"
    /\ scanner.pos + 2 <= Len(Source)
    /\ Source[scanner.pos + 1].kind = "Identifier"
    /\ Source[scanner.pos + 2].kind = "Semicolon"

\* the source starts with `var name ;`
StartsWithoutInitializer ==
    /\ Len(Source) >= 3
    /\ Source[1].kind = "Var"
    /\ Source[2].kind = "Identifier"
    /\ Source[3].kind = "Semicolon"

\* C34: `var x;` binds x to Nil: the declaration compiles to Nil followed
\* by DefineGlobal of a new constant that is the string x; run from the
\* start of a program it binds x to Nil, and every read of x before
\* another binding of x pushes Nil and is no undefined-variable error.
C34_VarWithoutInitializerIsNil ==
    /\ [][DeclaresWithoutInitializer =>
            LET name == Source[scanner.pos + 1].lexeme
                idx == Len(chunk.constants)
            IN  /\ Emitted = <<OpNil, OpDefineGlobal, idx>>
                /\ Len(chunk'.constants) = idx + 1
                /\ IsString(chunk'.constants[idx + 1])
                /\ lookup(interner', chunk'.constants[idx + 1].id) = name]_vars
    /\ [](StartsWithoutInitializer /\ comp_result = "Ok" =>
            LET name == Source[2].lexeme
            IN  /\ Len(trace) >= 1 => trace[1].op = OpNil
                /\ Len(trace) >= 2 =>
                      /\ trace[2].op = OpDefineGlobal
                      /\ trace[2].name = name
                      /\ trace[2].before = <<Nil>>
                      /\ trace[2].res = "running"
                /\ Len(trace) = 2 => globals[name] = Nil
                /\ \A k \in 1..Len(trace) :
                      (/\ trace[k].op = OpGetGlobal
                       /\ trace[k].name = name
                       /\ Binds(k, name) = {2})
                      => /\ trace[k].res = "running"
                         /\ trace[k].after = Append(trace[k].before, Nil))

\* `var x ; print x ;` has run and printed nil
C34_Witness ==
    /\ StartsWithoutInitializer
    /\ comp_result = "Ok"
    /\ pc = "done"
    /\ res = "Ok"
    /\ Len(trace) >= 4
    /\ trace[3].op = OpGetGlobal
    /\ trace[3].name = Source[2].lexeme
    /\ trace[4].op = OpPrint
    /\ out = <<[display |-> Nil]>>

====
